---- MODULE Spec2Model ----
(***************************************************************************)
(* HTTP/1.1 framing engine of http-handler.rust.                           *)
(*                                                                         *)
(* Bytes are naturals 0..255 and byte strings are sequences of bytes.      *)
(* The grammar (src/src/grammar.rs) is modelled as operators over a byte   *)
(* string s and a 1-based position i; each returns a parse result          *)
(*   [k |-> "Done" | "Incomplete" | "Error", pos |-> next position, v]     *)
(* that mirrors nom's IResult (Ok / Err::Incomplete / Err::Error).         *)
(***************************************************************************)
EXTENDS Integers, Sequences, FiniteSets, TLC

(***************************************************************************)
(* Bytes named by the grammar.                                             *)
(***************************************************************************)
HTAB == 9
LF == 10
CR == 13
SP == 32
PLUS == 43

CRLF == <<CR, LF>>
\* "HTTP"
HTTP_NAME == <<72, 84, 84, 80>>
SLASH == <<47>>
DOT == <<46>>
COLON == <<58>>
\* "Content-Length"
CONTENT_LENGTH == <<67, 111, 110, 116, 101, 110, 116, 45, 76, 101, 110, 103, 116, 104>>
\* "Transfer-Encoding"
TRANSFER_ENCODING == <<84, 114, 97, 110, 115, 102, 101, 114, 45, 69, 110, 99, 111, 100, 105, 110, 103>>

\* the names of the transfer codings the grammar knows
CHUNKED == <<99, 104, 117, 110, 107, 101, 100>>
GZIP == <<103, 122, 105, 112>>
COMPRESS == <<99, 111, 109, 112, 114, 101, 115, 115>>
DEFLATE == <<100, 101, 102, 108, 97, 116, 101>>

Min(a, b) == IF a <= b THEN a ELSE b

(***************************************************************************)
(* Character classes (src/src/grammar.rs, src/src/predicates.rs).          *)
(***************************************************************************)
is_digit == 48..57
is_alphabetic == (65..90) \cup (97..122)
\* among("!#$%&'*+-.^_`|~")
TSpecials == {33, 35, 36, 37, 38, 39, 42, 43, 45, 46, 94, 95, 96, 124, 126}
tchar == TSpecials \cup is_digit \cup is_alphabetic
vchar == 33..126
obs_text == 128..255
field_vchar == vchar \cup obs_text
WhiteSpace == {SP, HTAB}

(***************************************************************************)
(* Parse results and the primitive combinators.                            *)
(***************************************************************************)
Done(p, val) == [k |-> "Done", pos |-> p, v |-> val]
Incomplete == [k |-> "Incomplete", pos |-> 0, v |-> <<>>]
Error == [k |-> "Error", pos |-> 0, v |-> <<>>]

\* Option
None == [some |-> FALSE, v |-> 0]
Some(val) == [some |-> TRUE, v |-> val]

\* complete!: a parser that needs more input fails instead
complete(r) == IF r.k = "Incomplete" THEN Error ELSE r

\* map!: apply f to the value of a successful parse
map(r, f(_)) == IF r.k = "Done" THEN Done(r.pos, f(r.v)) ELSE r

\* tag!(t): streaming comparison of the input with the literal t
tag(t, s, i) ==
    LET avail == Len(s) - i + 1
        m == Min(avail, Len(t))
    IN  IF \E j \in 1..m : s[i + j - 1] # t[j] THEN Error
        ELSE IF avail < Len(t) THEN Incomplete
        ELSE Done(i + Len(t), t)

\* char_predicate!(c): one byte satisfying c
char_predicate(class, s, i) ==
    IF i > Len(s) THEN Incomplete
    ELSE IF s[i] \in class THEN Done(i + 1, <<s[i]>>)
    ELSE Error

\* first position j >= i that is past the end of s or holds a byte outside class
RECURSIVE ScanWhile(_, _, _)
ScanWhile(class, s, i) ==
    IF i > Len(s) \/ s[i] \notin class THEN i ELSE ScanWhile(class, s, i + 1)

\* str::from_utf8 on the bytes the inputs are drawn from (all below 0x80)
from_utf8_ok(bytes) == \A j \in 1..Len(bytes) : bytes[j] < 128

\* parse(p, s, i) applies the production named p; do_parse!(p1 >> p2 >> ...)
\* runs productions in sequence, stops at the first that is not Done and
\* otherwise yields the values of all of them
RECURSIVE parse(_, _, _)
RECURSIVE do_parse(_, _, _, _)
do_parse(ps, s, i, acc) ==
    IF Len(ps) = 0 THEN Done(i, acc)
    ELSE LET r == parse(Head(ps), s, i)
         IN  IF r.k # "Done" THEN r
             ELSE do_parse(Tail(ps), s, r.pos, Append(acc, r.v))

(***************************************************************************)
(* The grammar (src/src/grammar.rs).                                       *)
(***************************************************************************)
crlf(s, i) == tag(CRLF, s, i)
space(s, i) == tag(<<SP>>, s, i)
digit(s, i) == char_predicate(is_digit, s, i)

\* token = 1*tchar : many1!(complete!(tchar))
token(s, i) ==
    LET j == ScanWhile(tchar, s, i)
    IN  IF j = i THEN Error ELSE Done(j, SubSeq(s, i, j - 1))

\* OWS = *( SP / HTAB ) : many0!(complete!(alt!(space | htab)))
ows(s, i) == Done(ScanWhile(WhiteSpace, s, i), <<>>)

\* 1*( SP / HTAB ) : many1!(complete!(alt!(space | htab)))
spaces(s, i) ==
    LET j == ScanWhile(WhiteSpace, s, i)
    IN  IF j = i THEN Error ELSE Done(j, SubSeq(s, i, j - 1))

\* request-target : is_not!(" ") read as text
request_target(s, i) ==
    LET j == ScanWhile((0..255) \ {SP}, s, i)
    IN  IF j > Len(s) THEN Incomplete
        ELSE IF j = i THEN Error
        ELSE IF ~from_utf8_ok(SubSeq(s, i, j - 1)) THEN Error
        ELSE Done(j, SubSeq(s, i, j - 1))

\* asci_digit
asci_digit(b) == b - 48

\* HTTP-version = HTTP-name "/" DIGIT "." DIGIT
http_version(s, i) ==
    map(do_parse(<<"http_name", "slash", "digit", "dot", "digit">>, s, i, <<>>),
        LAMBDA v : [major |-> asci_digit(v[3][1]), minor |-> asci_digit(v[5][1])])

\* request-line = method SP request-target SP HTTP-version CRLF
request_line(s, i) ==
    map(do_parse(<<"method", "space", "request_target", "space", "http_version", "crlf">>,
                 s, i, <<>>),
        LAMBDA v : [line |-> "RequestLine", method |-> v[1], request_target |-> v[3],
                    version |-> v[5]])

\* status-code = 3DIGIT : many_m_n!(3, 3, complete!(digit)) read as u16
status_code(s, i) ==
    IF i + 2 <= Len(s) /\ \A j \in i..(i + 2) : s[j] \in is_digit
    THEN Done(i + 3, asci_digit(s[i]) * 100 + asci_digit(s[i + 1]) * 10 + asci_digit(s[i + 2]))
    ELSE Error

\* reason-phrase = *( HTAB / SP / VCHAR / obs-text )
reason_phrase(s, i) ==
    LET j == ScanWhile(WhiteSpace \cup vchar \cup obs_text, s, i)
    IN  IF ~from_utf8_ok(SubSeq(s, i, j - 1)) THEN Error
        ELSE Done(j, SubSeq(s, i, j - 1))

\* status-line = HTTP-version SP status-code SP reason-phrase CRLF
status_line(s, i) ==
    map(do_parse(<<"http_version", "space", "status_code", "space", "reason_phrase", "crlf">>,
                 s, i, <<>>),
        LAMBDA v : [line |-> "StatusLine", version |-> v[1], code |-> v[3],
                    description |-> v[5]])

\* start-line = request-line / status-line : alt! moves on only after Err::Error
start_line(s, i) ==
    LET r == request_line(s, i)
    IN  IF r.k = "Error" THEN status_line(s, i) ELSE r

\* field-content = field-vchar [ 1*( SP / HTAB ) field-vchar ]
field_content(s, i) ==
    LET chr == char_predicate(field_vchar, s, i)
        j == ScanWhile(WhiteSpace, s, i + 1)
    IN  IF chr.k # "Done" THEN chr
        ELSE IF j > i + 1 /\ j <= Len(s) /\ s[j] \in field_vchar
             THEN Done(j + 1, SubSeq(s, i, j))
        ELSE chr

\* variant: the fold yields one SP
obs_fold_space(s, i) ==
    map(do_parse(<<"crlf", "spaces">>, s, i, <<>>), LAMBDA v : <<SP>>)

\* obs-fold = CRLF 1*( SP / HTAB ) : yields Default::default(), the empty slice
obs_fold(s, i) ==
    map(do_parse(<<"crlf", "spaces">>, s, i, <<>>), LAMBDA v : <<>>)

\* field-value = *( field-content / obs-fold ), joined by to_cow_str
RECURSIVE field_value_loop(_, _, _)
field_value_loop(s, i, acc) ==
    LET fc == field_content(s, i)
        one == IF fc.k = "Error" THEN obs_fold(s, i) ELSE fc
    IN  IF one.k = "Done" THEN field_value_loop(s, one.pos, acc \o one.v)
        ELSE Done(i, acc)

field_value(s, i) ==
    LET r == field_value_loop(s, i, <<>>)
    IN  IF from_utf8_ok(r.v) THEN r ELSE Error

\* header-field = field-name ":" OWS field-value OWS
header_field(s, i) ==
    map(do_parse(<<"field_name", "colon", "ows", "field_value", "ows">>, s, i, <<>>),
        LAMBDA v : [name |-> v[1], value |-> v[4]])

\* headers = *( header-field CRLF ) : many0!(complete!(terminated!(header_field, crlf)))
RECURSIVE headers_loop(_, _, _)
headers_loop(s, i, acc) ==
    LET r == do_parse(<<"header_field", "crlf">>, s, i, <<>>)
    IN  IF r.k = "Done" THEN headers_loop(s, r.pos, Append(acc, r.v[1]))
        ELSE Done(i, acc)

headers(s, i) == headers_loop(s, i, <<>>)

\* message-head = start-line headers CRLF
message_head(s, i) ==
    map(do_parse(<<"start_line", "headers", "crlf">>, s, i, <<>>),
        LAMBDA v : [start_line |-> v[1], headers |-> v[2]])

\* HEXDIG, as nom's is_hex_digit
is_hex_digit == is_digit \cup (65..70) \cup (97..102)

hex_digit(s, i) == char_predicate(is_hex_digit, s, i)

\* the value of one hexadecimal digit
HexDigitValue(b) == IF b \in is_digit THEN b - 48 ELSE IF b \in 65..70 THEN b - 55 ELSE b - 87

\* parse_hex : u64::from_str_radix(value, 16).  Its overflow branch needs 17
\* digits; the chunk sizes of the streams below have one.
RECURSIVE parse_hex(_)
parse_hex(digits) ==
    IF Len(digits) = 0 THEN 0
    ELSE parse_hex(SubSeq(digits, 1, Len(digits) - 1)) * 16 + HexDigitValue(digits[Len(digits)])

\* chunk-size = 1*HEXDIG : many1!(complete!(hex_digit)), read as a number
chunk_size(s, i) ==
    LET j == ScanWhile(is_hex_digit, s, i)
    IN  IF j = i THEN Error ELSE Done(j, parse_hex(SubSeq(s, i, j - 1)))

\* qdtext = HTAB / SP / %x21 / %x23-5B / %x5D-7E / obs-text
quoted_text == {HTAB, SP, 33} \cup (35..91) \cup (93..126) \cup obs_text

\* *( qdtext / quoted-pair ) : many0!(complete!(alt!(quoted_text | quoted_pair)))
RECURSIVE quoted_loop(_, _, _)
quoted_loop(s, i, acc) ==
    IF i <= Len(s) /\ s[i] \in quoted_text
    THEN quoted_loop(s, i + 1, Append(acc, s[i]))
    ELSE IF i + 1 <= Len(s) /\ s[i] = 92 /\ s[i + 1] \in (WhiteSpace \cup vchar \cup obs_text)
    THEN quoted_loop(s, i + 2, Append(acc, s[i + 1]))
    ELSE Done(i, acc)

\* quoted-string = DQUOTE *( qdtext / quoted-pair ) DQUOTE, joined by to_cow_str
quoted_string(s, i) ==
    map(do_parse(<<"double_quote", "quoted_body", "double_quote">>, s, i, <<>>),
        LAMBDA v : v[2])

\* chunk-ext-val = token / quoted-string
chunk_ext_value(s, i) ==
    IF token(s, i).k = "Error" THEN quoted_string(s, i) ELSE token(s, i)

\* opt!(complete!(preceded!(delimited!(bws, char!('='), bws), chunk_ext_value)))
opt_ext_value(s, i) ==
    LET r == do_parse(<<"ows", "equals", "ows", "chunk_ext_value">>, s, i, <<>>)
    IN  IF r.k = "Done" THEN Done(r.pos, Some(r.v[4])) ELSE Done(i, None)

\* chunk-ext = *( BWS ";" BWS chunk-ext-name [ BWS "=" BWS chunk-ext-val ] )
RECURSIVE chunk_ext_loop(_, _, _)
chunk_ext_loop(s, i, acc) ==
    LET r == do_parse(<<"ows", "semicolon", "ows", "chunk_ext_name", "opt_ext_value">>,
                      s, i, <<>>)
    IN  IF r.k = "Done"
        THEN chunk_ext_loop(s, r.pos, Append(acc, [name |-> r.v[4], value |-> r.v[5]]))
        ELSE Done(i, acc)

chunk_ext(s, i) == chunk_ext_loop(s, i, <<>>)

\* chunk_head : chunk-size [ chunk-ext ] CRLF
chunk_head(s, i) ==
    map(do_parse(<<"chunk_size", "chunk_ext", "crlf">>, s, i, <<>>),
        LAMBDA v : [size |-> v[1], extensions |-> v[2]])

\* opt!(complete!(alt!(map!(token, Cow::from) | quoted_string)))
transfer_value(s, i) ==
    IF chunk_ext_value(s, i).k = "Done"
    THEN Done(chunk_ext_value(s, i).pos, Some(chunk_ext_value(s, i).v))
    ELSE Done(i, None)

\* transfer-parameter : token BWS "=" BWS [ token / quoted-string ]
transfer_parameter(s, i) ==
    map(do_parse(<<"method", "ows", "equals", "ows", "transfer_value">>, s, i, <<>>),
        LAMBDA v : [name |-> v[1], value |-> v[5]])

\* many0!(complete!(do_parse!(ows >> char!(';') >> ows >> param: transfer_parameter)))
RECURSIVE transfer_params_loop(_, _, _)
transfer_params_loop(s, i, acc) ==
    LET r == do_parse(<<"ows", "semicolon", "ows", "transfer_parameter">>, s, i, <<>>)
    IN  IF r.k = "Done" THEN transfer_params_loop(s, r.pos, Append(acc, r.v[4]))
        ELSE Done(i, acc)

\* transfer-extension = token *( OWS ";" OWS transfer-parameter )
transfer_extension(s, i) ==
    map(do_parse(<<"method", "transfer_params">>, s, i, <<>>),
        LAMBDA v : [coding |-> "Extension", name |-> v[1], params |-> v[2]])

\* value!(coding, tag!(t))
coding_tag(coding, t, s, i) ==
    map(tag(t, s, i), LAMBDA v : [coding |-> coding, name |-> <<>>, params |-> <<>>])

\* transfer-coding : alt!, which goes on to the next branch only on Error
transfer_coding(s, i) ==
    IF tag(CHUNKED, s, i).k # "Error" THEN coding_tag("Chunked", CHUNKED, s, i)
    ELSE IF tag(COMPRESS, s, i).k # "Error" THEN coding_tag("Compress", COMPRESS, s, i)
    ELSE IF tag(DEFLATE, s, i).k # "Error" THEN coding_tag("Deflate", DEFLATE, s, i)
    ELSE IF tag(GZIP, s, i).k # "Error" THEN coding_tag("Gzip", GZIP, s, i)
    ELSE transfer_extension(s, i)

\* Transfer-Encoding = 1#transfer-coding :
\* separated_nonempty_list(delimited(ows, complete::char(','), ows), transfer_coding)
RECURSIVE transfer_list_loop(_, _, _)
RECURSIVE transfer_list_next(_, _, _, _)
transfer_list_next(s, i, acc, f) ==
    IF f.k = "Error" THEN Done(i, acc)
    ELSE IF f.k = "Incomplete" THEN Incomplete
    ELSE transfer_list_loop(s, f.pos, Append(acc, f.v))

transfer_list_sep(s, i, acc, sep) ==
    IF sep.k # "Done" THEN Done(i, acc)
    ELSE transfer_list_next(s, i, acc, transfer_coding(s, sep.pos))

transfer_list_loop(s, i, acc) ==
    transfer_list_sep(s, i, acc, do_parse(<<"ows", "comma", "ows">>, s, i, <<>>))

transfer_list_first(s, i, f) ==
    IF f.k # "Done" THEN f ELSE transfer_list_loop(s, f.pos, <<f.v>>)

transfer_encoding(s, i) == transfer_list_first(s, i, transfer_coding(s, i))

parse(p, s, i) ==
    CASE p = "http_name" -> tag(HTTP_NAME, s, i)
      [] p = "semicolon" -> tag(<<59>>, s, i)
      [] p = "equals" -> tag(<<61>>, s, i)
      [] p = "comma" -> complete(tag(<<44>>, s, i))
      [] p = "transfer_value" -> transfer_value(s, i)
      [] p = "transfer_parameter" -> transfer_parameter(s, i)
      [] p = "transfer_params" -> transfer_params_loop(s, i, <<>>)
      [] p = "double_quote" -> tag(<<34>>, s, i)
      [] p = "quoted_body" ->
           IF from_utf8_ok(quoted_loop(s, i, <<>>).v) THEN quoted_loop(s, i, <<>>) ELSE Error
      [] p = "chunk_ext_name" -> token(s, i)
      [] p = "chunk_ext_value" -> chunk_ext_value(s, i)
      [] p = "opt_ext_value" -> opt_ext_value(s, i)
      [] p = "chunk_size" -> chunk_size(s, i)
      [] p = "chunk_ext" -> chunk_ext(s, i)
      [] p = "slash" -> tag(SLASH, s, i)
      [] p = "dot" -> tag(DOT, s, i)
      [] p = "colon" -> tag(COLON, s, i)
      [] p = "digit" -> digit(s, i)
      [] p = "space" -> space(s, i)
      [] p = "crlf" -> crlf(s, i)
      [] p = "spaces" -> spaces(s, i)
      [] p = "ows" -> ows(s, i)
      [] p \in {"method", "field_name"} -> token(s, i)
      [] p = "request_target" -> request_target(s, i)
      [] p = "http_version" -> http_version(s, i)
      [] p = "status_code" -> status_code(s, i)
      [] p = "reason_phrase" -> reason_phrase(s, i)
      [] p = "start_line" -> start_line(s, i)
      [] p = "field_value" -> field_value(s, i)
      [] p = "header_field" -> header_field(s, i)
      [] p = "headers" -> headers(s, i)

\* parser::result : every nom error, Incomplete included, becomes an io::Error
result(r) == IF r.k = "Done" THEN [ok |-> TRUE, v |-> r.v, pos |-> r.pos]
             ELSE [ok |-> FALSE, v |-> r.k, pos |-> 0]

(***************************************************************************)
(* Headers (src/src/ast.rs).                                               *)
(***************************************************************************)
to_ascii_lowercase(b) == IF b \in 65..90 THEN b + 32 ELSE b

eq_ignore_ascii_case(a, b) ==
    /\ Len(a) = Len(b)
    /\ \A j \in 1..Len(a) : to_ascii_lowercase(a[j]) = to_ascii_lowercase(b[j])

\* Headers::get : the value of the first header whose name matches
\* variant: the last matching header wins
Headers_get_last(hs, name) ==
    LET hits == {j \in 1..Len(hs) : eq_ignore_ascii_case(name, hs[j].name)}
    IN  IF hits = {} THEN None
        ELSE Some(hs[CHOOSE j \in hits : \A m \in hits : j >= m].value)

\* variant: the names are compared as they are spelt
Headers_get_exact_case(hs, name) ==
    LET hits == {j \in 1..Len(hs) : name = hs[j].name}
    IN  IF hits = {} THEN None
        ELSE Some(hs[CHOOSE j \in hits : \A m \in hits : j <= m].value)

Headers_get(hs, name) ==
    LET hits == {j \in 1..Len(hs) : eq_ignore_ascii_case(name, hs[j].name)}
    IN  IF hits = {} THEN None
        ELSE Some(hs[CHOOSE j \in hits : \A m \in hits : j <= m].value)

RECURSIVE DecimalValue(_)
DecimalValue(digits) ==
    IF Len(digits) = 0 THEN 0
    ELSE DecimalValue(SubSeq(digits, 1, Len(digits) - 1)) * 10 + asci_digit(digits[Len(digits)])

\* str::parse::<u64> : an optional '+', then one or more decimal digits.  The
\* overflow branch needs 20 digits; the header values of the streams below
\* have one.
parse_u64(text) ==
    LET digits == IF Len(text) > 0 /\ text[1] = PLUS THEN Tail(text) ELSE text
    IN  IF Len(digits) = 0 \/ \E j \in 1..Len(digits) : digits[j] \notin is_digit
        THEN None
        ELSE Some(DecimalValue(digits))

\* Headers::content_length : get("Content-Length").and_then(|v| v.parse().ok())
Headers_content_length(hs) ==
    LET found == Headers_get(hs, CONTENT_LENGTH)
    IN  IF found.some THEN parse_u64(found.v) ELSE None

\* variant: only the headers spelt as the new one are dropped
Headers_replace_exact_case(hs, name, val) ==
    Append(SelectSeq(hs, LAMBDA h : name # h.name), [name |-> name, value |-> val])

\* Headers::replace : drop every header of that name, then push the new one
Headers_replace(hs, name, val) ==
    Append(SelectSeq(hs, LAMBDA h : ~eq_ignore_ascii_case(name, h.name)),
           [name |-> name, value |-> val])

\* Headers::headers : the values of the headers whose name matches, in order
Headers_headers(hs, name) ==
    LET hit == SelectSeq(hs, LAMBDA h : eq_ignore_ascii_case(name, h.name))
    IN  [j \in 1..Len(hit) |-> hit[j].value]

\* the closure of Headers::parse_nom : the parsed list, or Err for a parse
\* that fails, is incomplete or leaves a remainder
parse_nom_value(value, r) ==
    IF r.k = "Done" /\ r.pos = Len(value) + 1 THEN [ok |-> TRUE, v |-> r.v]
    ELSE [ok |-> FALSE, v |-> <<>>]

\* Headers::parse over parse_nom(name, transfer_encoding) : the lists of the
\* headers one after the other; the first Err ends it
RECURSIVE Headers_parse_nom(_, _)
Headers_parse_nom_extend(values, acc, one) ==
    IF one.ok THEN Headers_parse_nom(Tail(values), acc \o one.v)
    ELSE [ok |-> FALSE, v |-> <<>>]

Headers_parse_nom(values, acc) ==
    IF Len(values) = 0 THEN [ok |-> TRUE, v |-> acc]
    ELSE Headers_parse_nom_extend(values, acc,
             parse_nom_value(Head(values), transfer_encoding(Head(values), 1)))

\* Headers::transfer_encoding : unwrap_or_else(|_| Default::default())
Headers_transfer_encoding(hs) ==
    Headers_parse_nom(Headers_headers(hs, TRANSFER_ENCODING), <<>>).v

\* format!("{}", length) for a u64
RECURSIVE format_u64(_)
format_u64(n) ==
    IF n < 10 THEN <<48 + n>> ELSE format_u64(n \div 10) \o <<48 + (n % 10)>>

(***************************************************************************)
(* MessageBody (src/src/ast.rs) and Message (src/src/api.rs).              *)
(***************************************************************************)
\* MessageBody::read(headers, slice, reader).  A Reader body is
\* slice.chain(reader.take(limit)): first is the slice, limit the cap on upstream.
\* variant: the Slice is not cut to the declared length
MessageBody_read_whole_slice(hs, slice) ==
    LET body_length == Headers_content_length(hs)
        slice_length == Len(slice)
    IN  IF body_length.some /\ body_length.v > 0
        THEN IF body_length.v <= slice_length
             THEN [body |-> [kind |-> "Slice", bytes |-> slice, limit |-> 0],
                   count |-> slice_length]
             ELSE [body |-> [kind |-> "Reader", bytes |-> slice,
                             limit |-> body_length.v - slice_length],
                   count |-> slice_length]
        ELSE [body |-> [kind |-> "None", bytes |-> <<>>, limit |-> 0], count |-> 0]

\* variant: the upstream is limited to body_length, not to what is missing
MessageBody_read_full_take(hs, slice) ==
    LET body_length == Headers_content_length(hs)
        slice_length == Len(slice)
    IN  IF body_length.some /\ body_length.v > 0
        THEN IF body_length.v <= slice_length
             THEN [body |-> [kind |-> "Slice", bytes |-> SubSeq(slice, 1, body_length.v),
                             limit |-> 0],
                   count |-> body_length.v]
             ELSE [body |-> [kind |-> "Reader", bytes |-> slice,
                             limit |-> body_length.v],
                   count |-> slice_length]
        ELSE [body |-> [kind |-> "None", bytes |-> <<>>, limit |-> 0], count |-> 0]

\* variant: a declared length of zero is not set apart
MessageBody_read_zero_length(hs, slice) ==
    LET body_length == Headers_content_length(hs)
        slice_length == Len(slice)
    IN  IF body_length.some
        THEN IF body_length.v <= slice_length
             THEN [body |-> [kind |-> "Slice", bytes |-> SubSeq(slice, 1, body_length.v),
                             limit |-> 0],
                   count |-> body_length.v]
             ELSE [body |-> [kind |-> "Reader", bytes |-> slice,
                             limit |-> body_length.v - slice_length],
                   count |-> slice_length]
        ELSE [body |-> [kind |-> "None", bytes |-> <<>>, limit |-> 0], count |-> 0]

MessageBody_read(hs, slice) ==
    LET body_length == Headers_content_length(hs)
        slice_length == Len(slice)
    IN  IF body_length.some /\ body_length.v > 0
        THEN IF body_length.v <= slice_length
             THEN [body |-> [kind |-> "Slice", bytes |-> SubSeq(slice, 1, body_length.v),
                             limit |-> 0],
                   count |-> body_length.v]
             ELSE [body |-> [kind |-> "Reader", bytes |-> slice,
                             limit |-> body_length.v - slice_length],
                   count |-> slice_length]
        ELSE [body |-> [kind |-> "None", bytes |-> <<>>, limit |-> 0], count |-> 0]

\* Response::calculate_length / Response::build, run by Response::new
Response_build(hs, body) ==
    IF body.kind = "None" THEN Headers_replace(hs, CONTENT_LENGTH, format_u64(0))
    ELSE IF body.kind = "Slice"
         THEN Headers_replace(hs, CONTENT_LENGTH, format_u64(Len(body.bytes)))
    ELSE hs

(***************************************************************************)
(* Uri, Request, Response and the handlers (src/src/api.rs), and the       *)
(* texts they are formatted to (Display in src/src/ast.rs).                *)
(***************************************************************************)
\* the string literals of the source and of the calls below, as bytes
Text(t) ==
    CASE t = "GET" -> <<71, 69, 84>>
      [] t = "POST" -> <<80, 79, 83, 84>>
      [] t = "OK" -> <<79, 75>>
      [] t = "Bad Request" -> <<66, 97, 100, 32, 82, 101, 113, 117, 101, 115, 116>>
      [] t = "Unauthorized" -> <<85, 110, 97, 117, 116, 104, 111, 114, 105, 122, 101, 100>>
      [] t = "Not Found" -> <<78, 111, 116, 32, 70, 111, 117, 110, 100>>
      [] t = "Method Not Allowed" -> <<77, 101, 116, 104, 111, 100, 32, 78, 111, 116, 32, 65, 108, 108, 111, 119, 101, 100>>
      [] t = "Not allowed outside of base" -> <<78, 111, 116, 32, 97, 108, 108, 111, 119, 101, 100, 32, 111, 117, 116, 115, 105, 100, 101, 32, 111, 102, 32, 98, 97, 115, 101>>
      [] t = "Path denotes a directory" -> <<80, 97, 116, 104, 32, 100, 101, 110, 111, 116, 101, 115, 32, 97, 32, 100, 105, 114, 101, 99, 116, 111, 114, 121>>
      [] t = "Content-Type" -> <<67, 111, 110, 116, 101, 110, 116, 45, 84, 121, 112, 101>>
      [] t = "text/plain" -> <<116, 101, 120, 116, 47, 112, 108, 97, 105, 110>>
      [] t = "content-length" -> <<99, 111, 110, 116, 101, 110, 116, 45, 108, 101, 110, 103, 116, 104>>
      [] t = "streaming" -> <<115, 116, 114, 101, 97, 109, 105, 110, 103>>
      [] t = "X" -> <<88>>
      [] t = "a" -> <<97>>
      [] t = " a" -> <<32, 97>>
      [] t = "ab" -> <<97, 98>>
      [] t = "7" -> <<55>>
      [] t = "/a" -> <<47, 97>>
      [] t = "?a" -> <<63, 97>>
      [] t = "Hi" -> <<72, 105>>
      [] t = " HTTP/1.1" -> <<32, 72, 84, 84, 80, 47, 49, 46, 49>>
      [] t = "HTTP/1.1 " -> <<72, 84, 84, 80, 47, 49, 46, 49, 32>>

\* Uri::parse : the captures of RFC3986
\* ^(?:([^:/?#]+):)?(?://([^/?#]*))?([^?#]*)(?:\?([^#]*))?(?:#(.*))?
Uri_parse(value) ==
    LET At(j, b) == j <= Len(value) /\ value[j] = b
        s == ScanWhile((0..255) \ {58, 47, 63, 35}, value, 1)
        has_scheme == s > 1 /\ At(s, 58)
        a == IF has_scheme THEN s + 1 ELSE 1
        has_authority == At(a, 47) /\ At(a + 1, 47)
        p == IF has_authority THEN ScanWhile((0..255) \ {47, 63, 35}, value, a + 2) ELSE a
        q == ScanWhile((0..255) \ {63, 35}, value, p)
        f == IF At(q, 63) THEN ScanWhile((0..255) \ {35}, value, q + 1) ELSE q
    IN  [scheme |-> IF has_scheme THEN Some(SubSeq(value, 1, s - 1)) ELSE None,
         authority |-> IF has_authority THEN Some(SubSeq(value, a + 2, p - 1)) ELSE None,
         path |-> SubSeq(value, p, q - 1),
         query |-> IF At(q, 63) THEN Some(SubSeq(value, q + 1, f - 1)) ELSE None,
         fragment |-> IF At(f, 35)
                      THEN Some(SubSeq(value, f + 1,
                                       ScanWhile((0..255) \ {LF}, value, f + 1) - 1))
                      ELSE None]

\* Display for Uri
Uri_display(uri) ==
    (IF uri.scheme.some THEN uri.scheme.v \o <<58>> ELSE <<>>)
    \o (IF uri.authority.some THEN <<47, 47>> \o uri.authority.v ELSE <<>>)
    \o uri.path
    \o (IF uri.query.some THEN <<63>> \o uri.query.v ELSE <<>>)
    \o (IF uri.fragment.some THEN <<35>> \o uri.fragment.v ELSE <<>>)

\* MessageBody::None
NoBody == [kind |-> "None", bytes |-> <<>>, limit |-> 0]
\* MessageBody::Slice(bytes)
SliceBody(bytes) == [kind |-> "Slice", bytes |-> bytes, limit |-> 0]
\* MessageBody::Reader(Box::new(file)) : a file of `limit` bytes
ReaderBody(limit) == [kind |-> "Reader", bytes |-> <<>>, limit |-> limit]

\* Request::new
Request_new(method, url, hs, entity) ==
    [type |-> "Request", method |-> method, uri |-> Uri_parse(url),
     headers |-> hs, entity |-> entity]

\* Headers::remove
Headers_remove(hs, name) ==
    SelectSeq(hs, LAMBDA h : ~eq_ignore_ascii_case(name, h.name))

\* Response::header, the Request's likewise
Response_header(r, name, value) ==
    [r EXCEPT !.headers = Headers_replace(r.headers, name, value)]

\* Response::remove_header, the Request's likewise
Response_remove_header(r, name) ==
    [r EXCEPT !.headers = Headers_remove(r.headers, name)]

\* Response::content_type
Response_content_type(r, media_type) == Response_header(r, Text("Content-Type"), media_type)

\* Response::content_length
Response_content_length(r, length) == Response_header(r, CONTENT_LENGTH, format_u64(length))

\* Response::new : Response { .. }.build()
Response_new(code, description, hs, entity) ==
    [type |-> "Response", code |-> code, description |-> description,
     headers |-> Response_build(hs, entity), entity |-> entity]

\* Response::response
Response_response(code, description) == Response_new(code, description, <<>>, NoBody)

\* Response::entity : sets the entity, then build()
Response_entity(r, entity) ==
    [r EXCEPT !.entity = entity, !.headers = Response_build(r.headers, entity)]

\* Response::message
Response_message(r, msg) ==
    Response_entity(Response_content_type([r EXCEPT !.description = msg],
                                          Text("text/plain")),
                    SliceBody(msg))

\* Display for HttpVersion
HttpVersion_display(version) ==
    HTTP_NAME \o SLASH \o format_u64(version.major) \o DOT \o format_u64(version.minor)

\* Display for Headers : "{}: {}\r\n" for each
RECURSIVE Headers_display(_)
Headers_display(hs) ==
    IF Len(hs) = 0 THEN <<>>
    ELSE Head(hs).name \o COLON \o <<SP>> \o Head(hs).value \o CRLF
         \o Headers_display(Tail(hs))

\* MessageBody::format
MessageBody_format(body) ==
    IF body.kind = "Reader" THEN Text("streaming")
    ELSE IF body.kind = "Slice" /\ from_utf8_ok(body.bytes) THEN body.bytes
    ELSE <<>>

\* Display for Request and for Response : the start line with
\* HttpVersion { major: 1, minor: 1 }, the headers, CRLF, the entity
Message_display(m) ==
    (IF m.type = "Request"
     THEN m.method \o <<SP>> \o Uri_display(m.uri) \o <<SP>>
          \o HttpVersion_display([major |-> 1, minor |-> 1]) \o CRLF
     ELSE HttpVersion_display([major |-> 1, minor |-> 1]) \o <<SP>>
          \o format_u64(m.code) \o <<SP>> \o m.description \o CRLF)
    \o Headers_display(m.headers) \o CRLF \o MessageBody_format(m.entity)

\* message_body : take!(slice, length) for a Content-Length above 0
message_body(hs, s, i) ==
    LET length == Headers_content_length(hs)
    IN  IF length.some /\ length.v > 0
        THEN IF i + length.v - 1 <= Len(s)
             THEN Done(i + length.v, SliceBody(SubSeq(s, i, i + length.v - 1)))
             ELSE Incomplete
        ELSE Done(i, NoBody)

\* http_message = message_head, then message_body on its headers
http_message_body(head, s) ==
    IF head.k # "Done" THEN head
    ELSE map(message_body(head.v.headers, s, head.pos),
             LAMBDA body : [start_line |-> head.v.start_line, headers |-> head.v.headers,
                            body |-> body])

http_message(s, i) == http_message_body(message_head(s, i), s)

\* Request::new / Response::new on the parsed start line
Message_new(line, hs, body) ==
    IF line.line = "RequestLine"
    THEN Request_new(line.method, line.request_target, hs, body)
    ELSE Response_new(line.code, line.description, hs, body)

\* the closure of Message::read, given the head and MessageBody::read's answer b
Message_read_body(head, head_length, b) ==
    [ok |-> TRUE, err |-> "", head_length |-> head_length,
     count |-> head_length + b.count,
     message |-> Message_new(head.start_line, head.headers, b.body)]

\* Message::read, given result(message_head(slice))
Message_read_head(slice, r) ==
    IF ~r.ok
    THEN [ok |-> FALSE, err |-> r.v, head_length |-> 0, count |-> 0, message |-> <<>>]
    ELSE Message_read_body(r.v, r.pos - 1,
                           MessageBody_read(r.v.headers, SubSeq(slice, r.pos, Len(slice))))

\* Message::read(slice, reader) : Ok((message, head_length + body_read)) or Err
Message_read(slice) == Message_read_head(slice, result(message_head(slice, 1)))

\* Request::parse / Response::parse : result(http_message(slice)) mapped by
\* Request::from / Response::from, which panic on the other kind of start line
Message_parse(type, slice, r) ==
    IF ~r.ok THEN [ret |-> "Err", message |-> <<>>, remainder |-> <<>>]
    ELSE IF (type = "Request") # (r.v.start_line.line = "RequestLine")
    THEN [ret |-> "Panic", message |-> <<>>, remainder |-> <<>>]
    ELSE [ret |-> "Ok", message |-> Message_new(r.v.start_line, r.v.headers, r.v.body),
          remainder |-> SubSeq(slice, r.pos, Len(slice))]

\* Read for Chain<&[u8], Take<R>> driven to deliver `want` bytes: how many of
\* them come from upstream, which has `avail` bytes left
Chain_read_upstream(first_len, limit, avail, want) ==
    IF want <= first_len THEN 0 ELSE Min(want - first_len, Min(limit, avail))

\* variant: nothing is drained on drop
MessageBody_drop_nothing(body, used, avail) == 0

\* variant: the drain is not capped by the declared length
MessageBody_drop_to_eof(body, used, avail) ==
    IF body.kind = "Reader" THEN avail - used ELSE 0

\* Drop for MessageBody : copy(reader, sink()) reads the Reader to EOF; the
\* number of upstream bytes it removes after the handler took `used` of them
MessageBody_drop(body, used, avail) ==
    IF body.kind = "Reader" THEN Min(body.limit - used, avail - used) ELSE 0

(***************************************************************************)
(* Chunk::read (src/src/ast.rs).  The outcome is Slice, Last, Err, or      *)
(* Panic where the slice index &remainder[..s] is out of range.            *)
(***************************************************************************)
ChunkOutcome(kind, ext, payload, trailers, consumed) ==
    [kind |-> kind, extensions |-> ext, payload |-> payload, trailers |-> trailers,
     consumed |-> consumed]

\* size == 0 : result(headers(remainder))?, then 2 is added for the final CRLF
Chunk_read_last(slice, head, t) ==
    IF ~t.ok THEN ChunkOutcome("Err", <<>>, <<>>, <<>>, 0)
    ELSE ChunkOutcome("Last", head.v.extensions, <<>>, t.v, (t.pos - 1) + 2)

\* variant: the chunk's trailing CRLF is not counted
Chunk_read_head_no_crlf(slice, head) ==
    IF ~head.ok THEN ChunkOutcome("Err", <<>>, <<>>, <<>>, 0)
    ELSE IF head.v.size > 0
    THEN IF Len(slice) - (head.pos - 1) < head.v.size
         THEN ChunkOutcome("Panic", <<>>, <<>>, <<>>, 0)
         ELSE ChunkOutcome("Slice", head.v.extensions,
                           SubSeq(slice, head.pos, head.pos + head.v.size - 1), <<>>,
                           (head.pos - 1) + head.v.size)
    ELSE Chunk_read_last(slice, head, result(headers(slice, head.pos)))

\* head being result(chunk_head(slice))
Chunk_read_head(slice, head) ==
    IF ~head.ok THEN ChunkOutcome("Err", <<>>, <<>>, <<>>, 0)
    ELSE IF head.v.size > 0
    THEN IF Len(slice) - (head.pos - 1) < head.v.size
         THEN ChunkOutcome("Panic", <<>>, <<>>, <<>>, 0)
         ELSE ChunkOutcome("Slice", head.v.extensions,
                           SubSeq(slice, head.pos, head.pos + head.v.size - 1), <<>>,
                           (head.pos - 1) + head.v.size + 2)
    ELSE Chunk_read_last(slice, head, result(headers(slice, head.pos)))

Chunk_read(slice) == Chunk_read_head(slice, result(chunk_head(slice, 1)))

(***************************************************************************)
(* Buffer (src/src/io.rs).  value is the backing Vec; positions are        *)
(* 0-based offsets into it as in the source.                               *)
(***************************************************************************)
Buffer_with_capacity(capacity) ==
    [value |-> [j \in 1..capacity |-> 0], read_position |-> 0, write_position |-> 0]

Buffer_capacity(b) == Len(b.value)
Buffer_space(b) == Len(b.value) - b.write_position
Buffer_len(b) == b.write_position - b.read_position
Buffer_as_read(b) == SubSeq(b.value, b.read_position + 1, b.write_position)

Buffer_increment_read(b, n) ==
    LET rp == b.read_position + n
    IN  IF rp = b.write_position
        THEN [b EXCEPT !.read_position = 0, !.write_position = 0]
        ELSE [b EXCEPT !.read_position = rp]

Buffer_increment_write(b, n) == [b EXCEPT !.write_position = b.write_position + n]

\* Buffer::from / WriteInto::write_into with a closure that stores `bytes`
\* at the start of as_write() and returns Ok(Len(bytes))
Buffer_from(b, bytes) ==
    Buffer_increment_write(
        [b EXCEPT !.value = [j \in 1..Len(b.value) |->
            IF j > b.write_position /\ j <= b.write_position + Len(bytes)
            THEN bytes[j - b.write_position] ELSE b.value[j]]],
        Len(bytes))

\* io::consume : Ok(0) becomes Err("No data consumed")
consume(n) == n > 0

(***************************************************************************)
(* The byte streams a connection carries.  A stream is one or two          *)
(* messages back to back; each message is written down with the framing   *)
(* its sender meant (head, body bytes on the wire, framing rule), so that  *)
(* what the engine does can be compared with it.                           *)
(***************************************************************************)
\* "P / HTTP/1.1\r\n"
REQUEST_LINE == <<80, 32, 47, 32>> \o HTTP_NAME \o <<47, 49, 46, 49>> \o CRLF
\* "chunked", "gzip"
\* "abc"
ABC == <<97, 98, 99>>
\* "1\r\na\r\n0\r\n\r\n" : the chunked coding of "a"
CHUNKED_A == <<49>> \o CRLF \o <<97>> \o CRLF \o <<48>> \o CRLF \o CRLF

HeaderLine(name, val) == name \o COLON \o val \o CRLF

Ids == {"plain", "cl0", "cl3", "dupcl", "twocl", "chunked", "gzip"}

Template(id) ==
    CASE id = "plain" ->
           [head |-> REQUEST_LINE \o CRLF, body |-> <<>>, framing |-> "none", n |-> 0]
      [] id = "cl0" ->
           [head |-> REQUEST_LINE \o HeaderLine(CONTENT_LENGTH, <<48>>) \o CRLF,
            body |-> <<>>, framing |-> "length", n |-> 0]
      [] id = "cl3" ->
           [head |-> REQUEST_LINE \o HeaderLine(CONTENT_LENGTH, <<SP, 51>>) \o CRLF,
            body |-> ABC, framing |-> "length", n |-> 3]
      [] id = "dupcl" ->
           [head |-> REQUEST_LINE \o HeaderLine(CONTENT_LENGTH, <<120>>)
                        \o HeaderLine(CONTENT_LENGTH, <<50>>) \o CRLF,
            body |-> SubSeq(ABC, 1, 2), framing |-> "lengths", n |-> 2]
      [] id = "twocl" ->
           [head |-> REQUEST_LINE \o HeaderLine(CONTENT_LENGTH, <<49>>)
                        \o HeaderLine(CONTENT_LENGTH, <<50>>) \o CRLF,
            body |-> SubSeq(ABC, 1, 1), framing |-> "lengths", n |-> 1]
      [] id = "chunked" ->
           [head |-> REQUEST_LINE \o HeaderLine(TRANSFER_ENCODING, CHUNKED)
                        \o HeaderLine(CONTENT_LENGTH, <<51>>) \o CRLF,
            body |-> CHUNKED_A, framing |-> "chunked", n |-> 3]
      [] id = "gzip" ->
           [head |-> REQUEST_LINE \o HeaderLine(TRANSFER_ENCODING, GZIP)
                        \o HeaderLine(CONTENT_LENGTH, <<50>>) \o CRLF,
            body |-> SubSeq(ABC, 1, 2), framing |-> "not-chunked", n |-> 2]

Wire(id) == Template(id).head \o Template(id).body

\* what may follow the first message on the connection
Followers == {"plain", "cl3"}

Streams == {<<a>> : a \in Ids} \cup {<<a, b>> : a \in Ids, b \in Followers}

RECURSIVE Flatten(_)
Flatten(st) == IF Len(st) = 0 THEN <<>> ELSE Wire(Head(st)) \o Flatten(Tail(st))

\* the largest number of bytes one upstream read returns short of all it could
MaxFrag == 1
\* buffer capacities tried: the first head plus 0..MaxSlack, and the whole stream
MaxSlack == 1

VARIABLES
    stream,     \* the messages sent, as template ids
    data,       \* the bytes the upstream source holds in all
    upos,       \* how many of them have been read from the source
    buffer,     \* the connection's Buffer
    driver,     \* "server": Server::handler's loop; "test": a loop that retries
    running,    \* the driver has not returned
    res,        \* what the last Stream::read returned
    calls,      \* the callback invocations so far
    fragmented, \* every upstream read so far returned only a piece of data
    cbody,      \* the chunked body a ChunkStream reads, as a template id
    cstate,     \* ChunkStream.state
    cphase,     \* "open", "dropping" (inside Drop's loop), "dropped", "panicked"
    clast,      \* what the last call of next() did and returned
    cprev,      \* and the call before it
    cout,       \* the bytes Read::read has copied out so far
    cyield,     \* how many chunks next() has yielded
    message,    \* a Request or Response under construction or conversion
    hdrs,       \* a Headers value
    op,         \* the last operation applied to an object and what it answered
    handler     \* the HttpHandler of the connection

svars == <<stream, driver, running, res, calls, fragmented>>
cvars == <<cbody, cstate, cphase, clast, cprev, cout, cyield>>
avars == <<message, hdrs, op, handler>>
vars == <<stream, data, upos, buffer, driver, running, res, calls, fragmented,
          cbody, cstate, cphase, clast, cprev, cout, cyield, message, hdrs, op,
          handler>>

\* ChunkStreamState
NotStarted == [k |-> "NotStarted", n |-> 0]
Consumed(n) == [k |-> "Consumed", n |-> n]
Last(n) == [k |-> "Last", n |-> n]
Finished == [k |-> "Finished", n |-> 0]

\* no call of next() yet
NoCall == [via |-> "none", ret |-> "none", at |-> 0, avail |-> 0, payload |-> <<>>,
           consumed |-> 0, adv |-> 0, before |-> NotStarted]

\* a connection without a ChunkStream
NoChunkStream ==
    /\ cbody = "none"
    /\ cstate = NotStarted
    /\ cphase = "none"
    /\ clast = NoCall
    /\ cprev = NoCall
    /\ cout = <<>>
    /\ cyield = 0

\* no operation yet
NoOp == [name |-> "none"]

\* a connection on which no message, Headers or Buffer is handled by itself
NoApi ==
    /\ message = <<>>
    /\ hdrs = <<>>
    /\ op = NoOp
    /\ handler = "none"

\* 0-based offset in data of message i of the stream, and of its end
MsgStart(i) == Len(Flatten(SubSeq(stream, 1, i - 1)))
MsgEnd(i) == Min(MsgStart(i) + Len(Wire(stream[i])), Len(data))

Init ==
    /\ stream \in Streams
    /\ \E cut \in 0..Len(Template(stream[Len(stream)]).body) :
          data = SubSeq(Flatten(stream), 1, Len(Flatten(stream)) - cut)
    /\ upos = 0
    /\ \E capacity \in {Len(Template(stream[1]).head) + e : e \in 0..MaxSlack}
                          \cup {Len(Flatten(stream))} :
          buffer = Buffer_with_capacity(capacity)
    /\ driver \in {"server", "test"}
    /\ running = TRUE
    /\ res = [ok |-> TRUE, why |-> "start"]
    /\ calls = <<>>
    /\ fragmented = TRUE
    /\ NoChunkStream
    /\ NoApi

\* Read::read of the upstream into a slice of `room` bytes: 0 at EOF or
\* for an empty slice, otherwise any positive number the source has to hand
ReadSizes(room, avail) ==
    LET most == Min(room, avail)
    IN  IF most = 0 THEN {0} ELSE {most} \cup (1..Min(MaxFrag, most))

(***************************************************************************)
(* Stream::read(reader, buffer, fun) : one call by the driver.             *)
(*   n     bytes the upstream read inside buffer.fill returns              *)
(*   k     body bytes the callback reads from a Reader body                *)
(*   hres  what the callback returns                                       *)
(***************************************************************************)
\* the callback has run on mr.message and the message is dropped; Ok(count)
\* goes to Buffer::read_from, which advances the read position
Stream_read_done(up1, filled, mr, reach, k, hres, used, taken) ==
    /\ res' = [ok |-> hres = "ok", why |-> "callback"]
    /\ buffer' = IF hres = "ok" THEN Buffer_increment_read(filled, mr.count) ELSE filled
    /\ upos' = up1 + taken
    /\ calls' = Append(calls,
          [start |-> up1 - Buffer_len(filled),
           head_length |-> mr.head_length,
           count |-> mr.count,
           slice_length |-> Buffer_len(filled),
           message |-> mr.message,
           reach |-> reach,
           k |-> k,
           got |-> SubSeq(mr.message.entity.bytes \o SubSeq(data, up1 + 1, up1 + used), 1, k),
           taken |-> taken,
           hres |-> hres])

\* fun(&mut message) with a body of which `reach` bytes can be read
Stream_read_callback(up1, filled, mr, body, avail, reach) ==
    \E k \in 0..reach, hres \in (IF driver = "server" THEN {"ok", "err"} ELSE {"ok"}) :
       Stream_read_done(up1, filled, mr, reach, k, hres,
           Chain_read_upstream(Len(body.bytes), body.limit, avail, k),
           Chain_read_upstream(Len(body.bytes), body.limit, avail, k)
             + MessageBody_drop(body, Chain_read_upstream(Len(body.bytes), body.limit, avail, k),
                                avail))

\* the closure given to buffer.read_from, mr being Message::read(slice, reader)
Stream_read_message(up1, filled, mr) ==
    IF ~mr.ok
    THEN /\ res' = [ok |-> FALSE, why |-> mr.err]
         /\ buffer' = filled
         /\ upos' = up1
         /\ UNCHANGED calls
    ELSE Stream_read_callback(up1, filled, mr, mr.message.entity, Len(data) - up1,
             Len(mr.message.entity.bytes) + Min(mr.message.entity.limit, Len(data) - up1))

\* after consume(buffer.fill(reader))?
Stream_read_filled(up1, filled) ==
    Stream_read_message(up1, filled, Message_read(Buffer_as_read(filled)))

StreamRead ==
    /\ running
    /\ \E n \in ReadSizes(Buffer_space(buffer), Len(data) - upos) :
          /\ fragmented' = (fragmented /\ n < Len(data))
          /\ IF ~consume(n)
             THEN /\ res' = [ok |-> FALSE, why |-> "No data consumed"]
                  /\ UNCHANGED <<upos, buffer, calls>>
             ELSE Stream_read_filled(upos + n,
                      Buffer_from(buffer, SubSeq(data, upos + 1, upos + n)))
    /\ running' = (driver = "test" \/ res'.ok)
    /\ UNCHANGED <<stream, data, driver>>
    /\ UNCHANGED cvars
    /\ UNCHANGED avars

Next == StreamRead

Spec == Init /\ [][Next]_vars

(***************************************************************************)
(* ChunkStream over a BufferedRead (src/src/api.rs, src/src/io.rs).        *)
(* data, upos are the BufferedRead's inner reader and buffer its Buffer.   *)
(* A chunked body is written down as its chunk payloads, its trailer       *)
(* lines and the bytes that end it, so that what the stream does can be    *)
(* compared with it.                                                       *)
(***************************************************************************)
\* "T:v\r\n", "XY", "P "
TRAILER == <<84, 58, 118>> \o CRLF
NOT_CRLF == <<88, 89>>
NEXT_MESSAGE == <<80, 32>>

CIds == {"one", "two", "trailer", "badend"}

CTemplate(id) ==
    CASE id = "one" -> [chunks |-> <<SubSeq(ABC, 1, 1)>>, trailer |-> <<>>, final |-> CRLF]
      [] id = "two" -> [chunks |-> <<SubSeq(ABC, 1, 2), SubSeq(ABC, 3, 3)>>,
                        trailer |-> <<>>, final |-> CRLF]
      [] id = "trailer" -> [chunks |-> <<SubSeq(ABC, 1, 1)>>, trailer |-> TRAILER,
                            final |-> CRLF]
      [] id = "badend" -> [chunks |-> <<SubSeq(ABC, 1, 1)>>, trailer |-> <<>>,
                           final |-> NOT_CRLF]

\* a size below 16 as one hexadecimal digit
HexDigit(n) == IF n < 10 THEN 48 + n ELSE 87 + n

\* chunk = chunk-size CRLF chunk-data CRLF
ChunkWire(payload) == <<HexDigit(Len(payload))>> \o CRLF \o payload \o CRLF

RECURSIVE ChunksWire(_)
ChunksWire(chunks) ==
    IF Len(chunks) = 0 THEN <<>> ELSE ChunkWire(Head(chunks)) \o ChunksWire(Tail(chunks))

RECURSIVE Payloads(_)
Payloads(chunks) ==
    IF Len(chunks) = 0 THEN <<>> ELSE Head(chunks) \o Payloads(Tail(chunks))

\* last-chunk trailer-part and the end of the body
LastWire(id) == <<48>> \o CRLF \o CTemplate(id).trailer \o CTemplate(id).final

CWire(id) == ChunksWire(CTemplate(id).chunks) \o LastWire(id)

\* the largest number of bytes the source lacks at its end
MaxCut == 5
\* the largest destination slice given to Read::read
MaxDest == 2

ChunkInit ==
    /\ cbody \in CIds
    /\ \E tail \in {<<>>, NEXT_MESSAGE}, cut \in 0..MaxCut :
          /\ tail = <<>> \/ cut = 0
          /\ data = SubSeq(CWire(cbody) \o tail, 1, Len(CWire(cbody) \o tail) - cut)
    /\ upos = 0
    /\ buffer = Buffer_with_capacity(Len(data))
    /\ cstate = NotStarted
    /\ cphase = "open"
    /\ clast = NoCall
    /\ cprev = NoCall
    /\ cout = <<>>
    /\ cyield = 0
    /\ stream = <<>>
    /\ driver = "test"
    /\ running = FALSE
    /\ res = [ok |-> TRUE, why |-> "start"]
    /\ calls = <<>>
    /\ fragmented = TRUE
    /\ NoApi

\* variant: Last is consumed but the stream does not become Finished
ChunkStream_update_state_stays_last(st, buf) ==
    IF st.k \in {"Last", "Consumed"}
    THEN [state |-> st, buffer |-> Buffer_increment_read(buf, st.n), adv |-> st.n]
    ELSE [state |-> st, buffer |-> buf, adv |-> 0]

\* ChunkStream::update_state : the state, the buffer and the amount consumed
ChunkStream_update_state(st, buf) ==
    IF st.k = "Last"
    THEN [state |-> Finished, buffer |-> Buffer_increment_read(buf, st.n), adv |-> st.n]
    ELSE IF st.k = "Consumed"
    THEN [state |-> st, buffer |-> Buffer_increment_read(buf, st.n), adv |-> st.n]
    ELSE [state |-> st, buffer |-> buf, adv |-> 0]

\* where a call leaves the stream: a panic ends it, Drop loops while Some(Ok(_))
PhaseAfter(via, ret) ==
    IF ret = "Panic" THEN "panicked"
    ELSE IF via = "drop" THEN (IF ret \in {"Slice", "Last"} THEN "dropping" ELSE "dropped")
    ELSE "open"

\* the call returns ret, having been given avail bytes from offset at
ChunkStream_return(via, u, up1, buf, st, ret, c) ==
    /\ cstate' = st
    /\ buffer' = buf
    /\ upos' = up1
    /\ cprev' = clast
    /\ clast' = [via |-> via, ret |-> ret, at |-> up1 - Buffer_len(buf),
                 avail |-> Buffer_len(buf), payload |-> c.payload,
                 consumed |-> c.consumed, adv |-> u.adv, before |-> cstate]
    /\ cphase' = PhaseAfter(via, ret)
    /\ cout' = IF via = "read" /\ ret = "Slice" THEN cout \o c.payload ELSE cout
    /\ cyield' = IF ret \in {"Slice", "Last"} THEN cyield + 1 ELSE cyield

\* match Chunk::read(buffer), and for Read::read the copy into a slice of
\* dest bytes: copy_from_slice panics when the lengths differ
ChunkStream_chunk(via, dest, u, up1, filled, c) ==
    IF c.kind = "Panic" THEN ChunkStream_return(via, u, up1, filled, u.state, "Panic", c)
    ELSE IF c.kind = "Err" THEN ChunkStream_return(via, u, up1, filled, u.state, "Err", c)
    ELSE IF c.kind = "Last"
    THEN ChunkStream_return(via, u, up1, filled, Last(c.consumed), "Last", c)
    ELSE IF via = "read" /\ Len(c.payload) > dest
    THEN ChunkStream_return(via, u, up1, filled, Consumed(c.consumed), "Panic", c)
    ELSE ChunkStream_return(via, u, up1, filled, Consumed(c.consumed), "Slice", c)

\* after self.read.fill_buf() : as_read panics when read_position has passed
\* write_position; an empty buffer ends the stream
ChunkStream_filled(via, dest, u, up1, filled) ==
    IF filled.read_position > filled.write_position
    THEN ChunkStream_return(via, u, up1, filled, u.state, "Panic",
                            ChunkOutcome("Panic", <<>>, <<>>, <<>>, 0))
    ELSE IF Buffer_len(filled) = 0
    THEN ChunkStream_return(via, u, up1, filled, Finished, "None",
                            ChunkOutcome("None", <<>>, <<>>, <<>>, 0))
    ELSE ChunkStream_chunk(via, dest, u, up1, filled, Chunk_read(Buffer_as_read(filled)))

\* after self.update_state()
ChunkStream_updated(via, dest, u) ==
    IF u.state.k = "Finished"
    THEN ChunkStream_return(via, u, upos, u.buffer, Finished, "None",
                            ChunkOutcome("None", <<>>, <<>>, <<>>, 0))
    ELSE \E n \in ReadSizes(Buffer_space(u.buffer), Len(data) - upos) :
            ChunkStream_filled(via, dest, u, upos + n,
                Buffer_from(u.buffer, SubSeq(data, upos + 1, upos + n)))

\* one call of Streamer::next, made directly, by Read::read or by Drop
ChunkStream_call(via, dest) ==
    /\ ChunkStream_updated(via, dest, ChunkStream_update_state(cstate, buffer))
    /\ UNCHANGED <<data, cbody>>
    /\ UNCHANGED svars
    /\ UNCHANGED avars

\* Streamer::next
ChunkStream_next == cphase = "open" /\ ChunkStream_call("next", 0)

\* Read::read(buf) with a buf of dest bytes
ChunkStream_read == cphase = "open" /\ \E dest \in 1..MaxDest : ChunkStream_call("read", dest)

\* Drop::drop : while let Some(Ok(_)) = self.next() {}, one iteration
ChunkStream_drop == cphase \in {"open", "dropping"} /\ ChunkStream_call("drop", 0)

ChunkNext == ChunkStream_next \/ ChunkStream_read \/ ChunkStream_drop

ChunkSpec == ChunkInit /\ [][ChunkNext]_vars

(***************************************************************************)
(* An abandoned body drained on drop from a source that can fail           *)
(* (Drop for MessageBody, src/src/ast.rs; Drop for ChunkStream,            *)
(* src/src/api.rs).  Either a ChunkStream as above, or a Reader body       *)
(* slice.chain(reader.take(limit)) of a message whose head and first body  *)
(* bytes were in the slice.                                                *)
(***************************************************************************)
\* std::io::ErrorKind of a failed upstream read; "none" is no failure
ErrorKinds == {"Interrupted", "Other"}

\* the Reader-bodied message Message::read makes of the head of "cl3" and
\* the first j bytes of its body
ReaderInit ==
    /\ \E j \in 0..(Len(ABC) - 1), tail \in {<<>>, NEXT_MESSAGE}, cut \in 0..MaxCut :
          /\ tail = <<>> \/ cut = 0
          /\ cut < Len(ABC) - j
          /\ data = SubSeq(Wire("cl3") \o tail, 1, Len(Wire("cl3") \o tail) - cut)
          /\ upos = Len(Template("cl3").head) + j
          /\ buffer = Buffer_from(Buffer_with_capacity(upos), SubSeq(data, 1, upos))
          /\ message = Message_read(SubSeq(data, 1, upos)).message
    /\ cbody = "none"
    /\ cstate = NotStarted
    /\ cphase = "open"
    /\ clast = NoCall
    /\ cprev = NoCall
    /\ cout = <<>>
    /\ cyield = 0
    /\ stream = <<"cl3">>
    /\ driver = "test"
    /\ running = FALSE
    /\ res = [ok |-> TRUE, why |-> "start"]
    /\ calls = <<>>
    /\ fragmented = TRUE
    /\ hdrs = <<>>
    /\ op = NoOp
    /\ handler = "none"

FaultInit == ChunkInit \/ ReaderInit

\* Drop for MessageBody : copy(reader, &mut sink()).expect(..).  The source
\* hands over `good` bytes and then fails with `kind`; io::copy reads on
\* after Interrupted and returns any other error, on which expect panics
MessageBody_drop_faulty ==
    /\ cphase = "open"
    /\ cbody = "none"
    /\ message.entity.kind = "Reader"
    /\ \E good \in 0..MessageBody_drop(message.entity, 0, Len(data) - upos),
          kind \in ErrorKinds \cup {"none"} :
          /\ kind # "none" => good < message.entity.limit
          /\ IF kind = "Other"
             THEN upos' = upos + good /\ cphase' = "panicked"
             ELSE /\ upos' = upos + MessageBody_drop(message.entity, 0, Len(data) - upos)
                  /\ cphase' = "dropped"
          /\ op' = [name |-> "drop", io |-> kind]
    /\ UNCHANGED <<data, buffer, cbody, cstate, clast, cprev, cout, cyield, message, hdrs,
                   handler>>
    /\ UNCHANGED svars

\* Streamer::next inside Drop for ChunkStream when the read in
\* self.read.fill_buf() fails : unwrap() panics on any error
ChunkStream_fill_fails(u) ==
    /\ u.state.k # "Finished"
    /\ ChunkStream_return("drop", u, upos, u.buffer, u.state, "Panic",
                          ChunkOutcome("Panic", <<>>, <<>>, <<>>, 0))
    /\ \E kind \in ErrorKinds : op' = [name |-> "drop", io |-> kind]
    /\ UNCHANGED <<data, cbody, message, hdrs, handler>>
    /\ UNCHANGED svars

\* Drop for ChunkStream, one iteration, over a source that may fail
ChunkStream_drop_faulty ==
    /\ cphase \in {"open", "dropping"}
    /\ cbody # "none"
    /\ \/ ChunkStream_call("drop", 0)
       \/ ChunkStream_fill_fails(ChunkStream_update_state(cstate, buffer))

FaultNext == MessageBody_drop_faulty \/ ChunkStream_drop_faulty

FaultSpec == FaultInit /\ [][FaultNext]_vars

(***************************************************************************)
(* A Buffer by itself, under calls of its public operations                *)
(* (src/src/io.rs).  Bytes 1 and 2 are data; 0 stands for a byte that was  *)
(* never written (set_len without initialisation).                         *)
(***************************************************************************)
\* the largest capacity given to with_capacity
MaxCap == 2
\* the largest count passed to, or answered by a closure of, an operation
MaxAdv == 2
\* the largest cursor and the largest capacity reserve grows to
MaxPos == 3

\* the byte strings of at most k bytes
BSeq(k) == UNION {[1..j -> {1, 2}] : j \in 0..k}

\* as_read : &self.value[read_position..write_position] panics out of range
Buffer_as_read_ok(b) ==
    b.read_position <= b.write_position /\ b.write_position <= Len(b.value)

\* as_write : &mut self.value[write_position..] panics out of range
Buffer_as_write_ok(b) == b.write_position <= Len(b.value)

\* a read_from that moves the read cursor past one byte when the closure
\* answers Err
Buffer_read_from_moving(b, ok, n) ==
    IF ~Buffer_as_read_ok(b) THEN [buffer |-> b, ret |-> "Panic"]
    ELSE IF ok THEN [buffer |-> Buffer_increment_read(b, n), ret |-> "Ok"]
    ELSE [buffer |-> Buffer_increment_read(b, Min(1, Buffer_len(b))), ret |-> "Err"]

\* ReadFrom for Buffer : fun(self.as_read()) answers Ok(n) or Err
Buffer_read_from(b, ok, n) ==
    IF ~Buffer_as_read_ok(b) THEN [buffer |-> b, ret |-> "Panic"]
    ELSE IF ok THEN [buffer |-> Buffer_increment_read(b, n), ret |-> "Ok"]
    ELSE [buffer |-> b, ret |-> "Err"]

\* WriteInto for Buffer : fun(self.as_write()) stores bytes at the start of
\* the slice and answers Ok(n) or Err
Buffer_write_into(b, bytes, ok, n) ==
    LET stored == [b EXCEPT !.value = [j \in 1..Len(b.value) |->
                      IF j > b.write_position /\ j <= b.write_position + Len(bytes)
                      THEN bytes[j - b.write_position] ELSE b.value[j]]]
    IN  IF ~Buffer_as_write_ok(b) THEN [buffer |-> b, ret |-> "Panic"]
        ELSE IF ok THEN [buffer |-> Buffer_increment_write(stored, n), ret |-> "Ok"]
        ELSE [buffer |-> stored, ret |-> "Err"]

\* Buffer::reserve : space() is capacity - write_position, which overflows
\* when the write cursor is past the capacity (a panic with overflow checks,
\* a wrap to a huge space without); Vec::reserve leaves a capacity of at
\* least what is asked, here `grown` more
Buffer_reserve(b, additional, grown, checked) ==
    IF b.write_position > Len(b.value)
    THEN [buffer |-> b, ret |-> IF checked THEN "Panic" ELSE "Ok"]
    ELSE IF additional > Buffer_space(b)
    THEN [buffer |-> [b EXCEPT !.value = b.value \o
                        [j \in 1..(additional - Buffer_space(b) + grown) |-> 0]],
          ret |-> "Ok"]
    ELSE [buffer |-> b, ret |-> "Ok"]

\* the calls a user of the Buffer can make next: its name, the count n it
\* passes or its closure answers, whether the closure or reader answers Ok
\* (for reserve: whether the build checks overflow), and the bytes the
\* closure, reader or caller writes (for reserve: as many as Vec::reserve
\* allocates beyond need)
BufferCalls(b) ==
    LET room == IF Buffer_as_write_ok(b) THEN Min(MaxAdv, Buffer_space(b)) ELSE 0
        Call(name, n, ok, bytes) == [name |-> name, n |-> n, ok |-> ok, bytes |-> bytes]
    IN  {Call("with_capacity", n, TRUE, <<>>) : n \in 0..MaxCap}
        \cup {Call(name, n, TRUE, <<>>) :
                name \in {"increment_read", "increment_write", "read"},
                n \in 0..MaxAdv}
        \cup {Call("reserve", n, checked, grown) :
                n \in 0..MaxAdv, checked \in BOOLEAN, grown \in {<<>>, <<0>>}}
        \cup {Call("read_from", n, TRUE, <<>>) : n \in 0..MaxAdv}
        \cup {Call("read_from", 0, FALSE, <<>>)}
        \cup {Call("write_into", n, TRUE, bytes) : n \in 0..MaxAdv, bytes \in BSeq(room)}
        \cup {Call("write_into", 0, FALSE, bytes) : bytes \in BSeq(room)}
        \cup {Call("from", Len(bytes), TRUE, bytes) : bytes \in BSeq(room)}
        \cup {Call("from", 0, FALSE, <<>>)}
        \cup {Call("write", Len(bytes), TRUE, bytes) : bytes \in BSeq(MaxAdv)}
        \cup {Call("fill_read_from", n, TRUE, bytes) : n \in 0..MaxAdv, bytes \in BSeq(room)}
        \cup {Call("fill_read_from", 0, FALSE, bytes) : bytes \in BSeq(room)}

\* what the call does to the Buffer and what it returns
Buffer_apply(b, c) ==
    CASE c.name = "with_capacity" -> [buffer |-> Buffer_with_capacity(c.n), ret |-> "Ok"]
      [] c.name = "increment_read" -> [buffer |-> Buffer_increment_read(b, c.n), ret |-> "Ok"]
      [] c.name = "increment_write" -> [buffer |-> Buffer_increment_write(b, c.n), ret |-> "Ok"]
      [] c.name = "reserve" -> Buffer_reserve(b, c.n, Len(c.bytes), c.ok)
      [] c.name = "read_from" -> Buffer_read_from(b, c.ok, c.n)
      [] c.name = "write_into" -> Buffer_write_into(b, c.bytes, c.ok, c.n)
      \* Buffer::from : write_into(|slice| read.read(slice))
      [] c.name = "from" -> Buffer_write_into(b, c.bytes, c.ok, Len(c.bytes))
      \* Read for Buffer : the closure answers min(slice.len(), buf.len())
      [] c.name = "read" ->
           Buffer_read_from(b, TRUE, Min(Buffer_len(b), c.n))
      \* Write for Buffer : the closure copies and answers min(slice.len(), buf.len())
      [] c.name = "write" ->
           Buffer_write_into(b, SubSeq(c.bytes, 1, Min(Buffer_space(b), Len(c.bytes))),
                             TRUE, Min(Buffer_space(b), Len(c.bytes)))
      \* ReadFrom for BufferedRead : self.fill()? ; self.buffer.read_from(fun)
      [] c.name = "fill_read_from" ->
           IF ~Buffer_as_write_ok(b) THEN [buffer |-> b, ret |-> "Panic"]
           ELSE Buffer_read_from(Buffer_from(b, c.bytes), c.ok, c.n)

BufferInit ==
    /\ \E capacity \in 0..MaxCap : buffer = Buffer_with_capacity(capacity)
    /\ op = NoOp
    /\ data = <<>>
    /\ upos = 0
    /\ stream = <<>>
    /\ driver = "test"
    /\ running = FALSE
    /\ res = [ok |-> TRUE, why |-> "start"]
    /\ calls = <<>>
    /\ fragmented = TRUE
    /\ NoChunkStream
    /\ message = <<>>
    /\ hdrs = <<>>
    /\ handler = "none"

\* one call; op keeps the call, what it returned, the readable bytes the
\* call met (for fill_read_from: after the fill) and the buffer it met
BufferCall ==
    \E c \in BufferCalls(buffer) :
       LET r == Buffer_apply(buffer, c)
           met == IF c.name = "fill_read_from" /\ Buffer_as_write_ok(buffer)
                  THEN Buffer_from(buffer, c.bytes) ELSE buffer
       IN  /\ r.buffer.read_position <= MaxPos
           /\ r.buffer.write_position <= MaxPos
           /\ Len(r.buffer.value) <= MaxPos
           /\ buffer' = r.buffer
           /\ op' = [name |-> c.name, n |-> c.n, ok |-> c.ok, bytes |-> c.bytes,
                     ret |-> r.ret,
                     seen |-> IF Buffer_as_read_ok(met) THEN Buffer_as_read(met) ELSE <<>>,
                     valid |-> Buffer_as_read_ok(met)]
           /\ UNCHANGED <<data, upos, message, hdrs, handler>>
           /\ UNCHANGED svars
           /\ UNCHANGED cvars

BufferNext == BufferCall

BufferSpec == BufferInit /\ [][BufferNext]_vars

(***************************************************************************)
(* A Request or Response by itself: made by a constructor or converted     *)
(* from a parsed HttpMessage, changed by the fluent builder calls, and     *)
(* formatted and parsed back (src/src/api.rs).                             *)
(***************************************************************************)
\* "HTTP/1.1 200 OK\r\n", "GET /a HTTP/1.1\r\n"
STATUS_LINE ==
    HTTP_NAME \o <<47, 49, 46, 49, SP, 50, 48, 48, SP>> \o Text("OK") \o CRLF
GET_LINE == Text("GET") \o <<SP>> \o Text("/a") \o <<SP>> \o HTTP_NAME \o <<47, 49, 46, 49>> \o CRLF

\* the messages on the wire that are parsed and converted
ApiWires ==
    {STATUS_LINE \o HeaderLine(Text("Content-Type"), Text("text/plain")) \o CRLF,
     STATUS_LINE \o HeaderLine(CONTENT_LENGTH, <<51>>) \o HeaderLine(Text("X"), Text("a"))
        \o CRLF \o ABC,
     STATUS_LINE \o HeaderLine(Text("X"), Text("a")) \o HeaderLine(CONTENT_LENGTH, <<48>>)
        \o CRLF,
     GET_LINE \o HeaderLine(Text("X"), Text("a")) \o CRLF,
     GET_LINE \o HeaderLine(CONTENT_LENGTH, <<51>>) \o HeaderLine(Text("X"), Text("a"))
        \o CRLF \o ABC}

\* the bodies given to a constructor or to Response::entity
Entities == {NoBody, SliceBody(Text("ab")), ReaderBody(2)}

\* Response::ok(), Response::not_found(), and Request::new on a method, a
\* url, Headers::new() and an entity (Request::get and Request::post with
\* MessageBody::None)
ApiInit ==
    /\ message \in {Response_response(200, Text("OK")),
                    Response_response(404, Text("Not Found"))}
                   \cup {Request_new(method, url, <<>>, entity) :
                           method \in {Text("GET"), Text("POST")},
                           url \in {Text("/a"), Text("?a")},
                           entity \in Entities \ {ReaderBody(2)}}
    /\ op = NoOp
    /\ hdrs = <<>>
    /\ handler = "none"
    /\ data = <<>>
    /\ upos = 0
    /\ buffer = Buffer_with_capacity(0)
    /\ stream = <<>>
    /\ driver = "test"
    /\ running = FALSE
    /\ res = [ok |-> TRUE, why |-> "start"]
    /\ calls = <<>>
    /\ fragmented = TRUE
    /\ NoChunkStream

\* the fluent builder calls of Response, with their arguments
ResponseCalls ==
    LET Call(name, n, text, entity) ==
            [name |-> name, n |-> n, text |-> text, entity |-> entity]
    IN  {Call("code", 404, <<>>, NoBody), Call("description", 0, Text("OK"), NoBody),
         Call("message", 0, Text("Hi"), NoBody),
         Call("header", 0, Text("X"), NoBody),
         Call("header", 0, Text("content-length"), NoBody),
         Call("remove_header", 0, Text("X"), NoBody),
         Call("remove_header", 0, Text("content-length"), NoBody),
         Call("content_type", 0, Text("text/plain"), NoBody),
         Call("content_length", 7, <<>>, NoBody)}
        \cup {Call("entity", 0, <<>>, entity) : entity \in Entities}

\* what the call returns; header sets the value "7" under the name given
Response_apply(r, c) ==
    CASE c.name = "code" -> [r EXCEPT !.code = c.n]
      [] c.name = "description" -> [r EXCEPT !.description = c.text]
      [] c.name = "message" -> Response_message(r, c.text)
      [] c.name = "header" -> Response_header(r, c.text, Text("7"))
      [] c.name = "remove_header" -> Response_remove_header(r, c.text)
      [] c.name = "content_type" -> Response_content_type(r, c.text)
      [] c.name = "content_length" -> Response_content_length(r, c.n)
      [] c.name = "entity" -> Response_entity(r, c.entity)

\* a fluent builder call on a Response
ResponseCall ==
    /\ message.type = "Response"
    /\ \E c \in ResponseCalls :
          /\ message' = Response_apply(message, c)
          /\ op' = [name |-> c.name]
    /\ UNCHANGED <<data, upos, buffer, hdrs, handler>>
    /\ UNCHANGED svars
    /\ UNCHANGED cvars

\* Request::method, Request::header, Request::remove_header
RequestCall ==
    /\ message.type = "Request"
    /\ \/ \E method \in {Text("GET"), Text("POST")} :
             /\ message' = [message EXCEPT !.method = method]
             /\ op' = [name |-> "method"]
       \/ \E name \in {Text("X"), CONTENT_LENGTH}, value \in {Text("a"), Text("7")} :
             /\ message' = Response_header(message, name, value)
             /\ op' = [name |-> "header"]
       \/ \E name \in {Text("X"), Text("content-length")} :
             /\ message' = Response_remove_header(message, name)
             /\ op' = [name |-> "remove_header"]
    /\ UNCHANGED <<data, upos, buffer, hdrs, handler>>
    /\ UNCHANGED svars
    /\ UNCHANGED cvars

\* format!("{}", message), then Request::parse or Response::parse of the text
FormatParse ==
    /\ op' = [name |-> "parse",
              parsed |-> Message_parse(message.type, Message_display(message),
                                       result(http_message(Message_display(message), 1)))]
    /\ UNCHANGED <<data, upos, buffer, hdrs, handler, message>>
    /\ UNCHANGED svars
    /\ UNCHANGED cvars

\* Message::parse of a message on the wire : From<HttpMessage> for Message
\* on what http_message gives
MessageFrom ==
    /\ \E wire \in ApiWires :
          LET r == result(http_message(wire, 1))
          IN  /\ r.ok
              /\ message' = Message_new(r.v.start_line, r.v.headers, r.v.body)
              /\ op' = [name |-> "from", http |-> r.v]
    /\ UNCHANGED <<data, upos, buffer, hdrs, handler>>
    /\ UNCHANGED svars
    /\ UNCHANGED cvars

ApiNext == ResponseCall \/ RequestCall \/ FormatParse \/ MessageFrom

ApiSpec == ApiInit /\ [][ApiNext]_vars

(***************************************************************************)
(* The connection loop of Server::handler with a FileHandler, bare or      *)
(* wrapped in a LogHandler (src/src/server.rs, src/src/api.rs).  The       *)
(* requests arrive whole; data and upos are the bytes sent and how many    *)
(* of them have been parsed.                                               *)
(***************************************************************************)
\* the most requests sent on a connection
MaxRequests == 2

\* "GET /a HTTP/1.1\r\n\r\n", "GET ?a HTTP/1.1\r\n\r\n", "POST /a HTTP/1.1\r\n\r\n"
HandlerWires ==
    {method \o <<SP>> \o url \o <<SP>> \o HTTP_NAME \o <<47, 49, 46, 49>> \o CRLF \o CRLF :
        method \in {Text("GET"), Text("POST")}, url \in {Text("/a"), Text("?a")}}
    \ {Text("POST") \o <<SP>> \o Text("?a") \o <<SP>> \o HTTP_NAME \o <<47, 49, 46, 49>>
         \o CRLF \o CRLF}

\* what base.join(&path[1..]) is in the file system
FileKinds == {"missing", "outside", "unreadable", "dir", "file"}

\* FileHandler::get : &path[1..] panics on an empty path
FileHandler_get(path, fs) ==
    IF Len(path) = 0 THEN [ret |-> "Panic", response |-> <<>>]
    ELSE IF fs \in {"missing", "unreadable"} THEN [ret |-> "Err", response |-> <<>>]
    ELSE IF fs = "outside"
    THEN [ret |-> "Ok",
          response |-> Response_message(Response_response(401, Text("Unauthorized")),
                                        Text("Not allowed outside of base"))]
    ELSE IF fs = "dir"
    THEN [ret |-> "Ok",
          response |-> Response_message(Response_response(404, Text("Not Found")),
                                        Text("Path denotes a directory"))]
    ELSE [ret |-> "Ok",
          response |-> Response_entity(
              Response_content_length(
                  Response_content_type(Response_response(200, Text("OK")),
                                        Text("text/plain")), 2),
              ReaderBody(2))]

\* HttpHandler for FileHandler : the responses handed to fun, in order, and
\* whether the handler panicked
FileHandler_handle(request, got) ==
    IF request.method # Text("GET")
    THEN [invoked |-> <<Response_response(405, Text("Method Not Allowed"))>>,
          panic |-> FALSE]
    ELSE IF got.ret = "Panic" THEN [invoked |-> <<>>, panic |-> TRUE]
    ELSE IF got.ret = "Err"
    THEN [invoked |-> <<Response_message(Response_response(404, Text("Not Found")),
                                         Text("Not Found"))>>,
          panic |-> FALSE]
    ELSE [invoked |-> <<got.response>>, panic |-> FALSE]

\* HttpHandler for LogHandler : the closure given to the inner handler calls
\* fun once each time it is called
LogHandler_handle(inner) ==
    [invoked |-> [j \in 1..Len(inner.invoked) |-> inner.invoked[j]],
     panic |-> inner.panic]

\* the requests one after the other
RECURSIVE Concat(_)
Concat(wires) == IF Len(wires) = 0 THEN <<>> ELSE Head(wires) \o Concat(Tail(wires))

HandlerInit ==
    /\ handler \in {"FileHandler", "LogHandler"}
    /\ stream \in UNION {[1..n -> HandlerWires] : n \in 1..MaxRequests}
    /\ data = Concat(stream)
    /\ upos = 0
    /\ buffer = Buffer_with_capacity(0)
    /\ driver = "server"
    /\ running = TRUE
    /\ res = [ok |-> TRUE, why |-> "start"]
    /\ calls = <<>>
    /\ fragmented = FALSE
    /\ NoChunkStream
    /\ message = <<>>
    /\ hdrs = <<>>
    /\ op = NoOp

\* the closure Server::handler gives to Stream::read, on the message mr; h
\* is what the handler did, wrote whether response.write_to wrote anything
Server_callback(mr, h, wrote) ==
    LET ret == IF h.panic THEN "Panic" ELSE IF wrote THEN "Ok" ELSE "Err"
    IN  /\ calls' = Append(calls, [message |-> mr.message, invoked |-> h.invoked,
                                   ret |-> ret])
        /\ res' = [ok |-> ret = "Ok", why |-> "callback"]
        /\ upos' = IF ret = "Ok" THEN upos + mr.count ELSE upos
        /\ running' = (ret = "Ok")

\* one turn of the loop in Server::handler
Server_handler ==
    /\ running
    /\ LET mr == Message_read(SubSeq(data, upos + 1, Len(data)))
       IN  IF upos = Len(data) \/ ~mr.ok
           THEN /\ res' = [ok |-> FALSE,
                           why |-> IF upos = Len(data) THEN "No data consumed" ELSE mr.err]
                /\ running' = FALSE
                /\ UNCHANGED <<calls, upos>>
           ELSE \E fs \in FileKinds, wrote \in BOOLEAN :
                   Server_callback(mr,
                       IF handler = "LogHandler"
                       THEN LogHandler_handle(
                                FileHandler_handle(mr.message,
                                    FileHandler_get(mr.message.uri.path, fs)))
                       ELSE FileHandler_handle(mr.message,
                                FileHandler_get(mr.message.uri.path, fs)),
                       wrote)
    /\ UNCHANGED <<stream, data, buffer, driver, fragmented, message, hdrs, op, handler>>
    /\ UNCHANGED cvars

HandlerNext == Server_handler

HandlerSpec == HandlerInit /\ [][HandlerNext]_vars

(***************************************************************************)
(* Headers by itself (src/src/ast.rs): Headers::new(), or the Headers the  *)
(* grammar makes of the header lines of a message, under get, replace and  *)
(* remove.                                                                 *)
(***************************************************************************)
\* the most header lines of a parsed message
MaxHeaders == 3

\* the names "A", "a", "B" and the values "1", "2"
HeaderNames == {<<65>>, <<97>>, <<66>>}
HeaderValues == {<<49>>, <<50>>}

\* the header lines of a message, up to MaxHeaders of them
HeaderBlocks ==
    UNION {[1..n -> {HeaderLine(name, value) : name \in HeaderNames, value \in HeaderValues}] :
             n \in 0..MaxHeaders}

\* op.built : the Headers came from Headers::new() by replace and remove only
HeadersInit ==
    /\ \E block \in HeaderBlocks : hdrs = headers(Concat(block), 1).v
    /\ op = [name |-> "new", arg |-> <<>>, value |-> <<>>, before |-> <<>>, got |-> None,
             built |-> hdrs = <<>>]
    /\ message = <<>>
    /\ handler = "none"
    /\ data = <<>>
    /\ upos = 0
    /\ buffer = Buffer_with_capacity(0)
    /\ stream = <<>>
    /\ driver = "test"
    /\ running = FALSE
    /\ res = [ok |-> TRUE, why |-> "start"]
    /\ calls = <<>>
    /\ fragmented = TRUE
    /\ NoChunkStream

\* Headers::get(name)
HeadersGet ==
    /\ \E name \in HeaderNames :
          op' = [name |-> "get", arg |-> name, value |-> <<>>, before |-> hdrs,
                 got |-> Headers_get(hdrs, name), built |-> op.built]
    /\ UNCHANGED <<hdrs, data, upos, buffer, message, handler>>
    /\ UNCHANGED svars
    /\ UNCHANGED cvars

\* Headers::replace(name, value)
HeadersReplace ==
    /\ \E name \in HeaderNames, value \in HeaderValues :
          /\ hdrs' = Headers_replace(hdrs, name, value)
          /\ op' = [name |-> "replace", arg |-> name, value |-> value, before |-> hdrs,
                    got |-> None, built |-> op.built]
    /\ UNCHANGED <<data, upos, buffer, message, handler>>
    /\ UNCHANGED svars
    /\ UNCHANGED cvars

\* Headers::remove(name)
HeadersRemove ==
    /\ \E name \in HeaderNames :
          /\ hdrs' = Headers_remove(hdrs, name)
          /\ op' = [name |-> "remove", arg |-> name, value |-> <<>>, before |-> hdrs,
                    got |-> None, built |-> op.built]
    /\ UNCHANGED <<data, upos, buffer, message, handler>>
    /\ UNCHANGED svars
    /\ UNCHANGED cvars

HeadersNext == HeadersGet \/ HeadersReplace \/ HeadersRemove

HeadersSpec == HeadersInit /\ [][HeadersNext]_vars

(***************************************************************************)
(* Headers::transfer_encoding (src/src/ast.rs) on the Headers the grammar  *)
(* makes of a message's header lines.                                      *)
(***************************************************************************)
MaxCodingHeaders == 3

\* "gzip, chunked", and the extension names "x", "gzipx" and "c"
GZIP_CHUNKED == GZIP \o <<44, SP>> \o CHUNKED
EXT_X == <<120>>
EXT_GZIPX == GZIP \o <<120>>
EXT_C == <<99>>

CodingValues == {GZIP, CHUNKED, GZIP_CHUNKED, EXT_X, EXT_GZIPX, EXT_C}

CodingLines ==
    {HeaderLine(TRANSFER_ENCODING, value) : value \in CodingValues}
      \cup {HeaderLine(Text("Content-Type"), Text("text/plain"))}

CodingBlocks == UNION {[1..n -> CodingLines] : n \in 0..MaxCodingHeaders}

CodingInit ==
    /\ \E block \in CodingBlocks : hdrs = headers(Concat(block), 1).v
    /\ op = [name |-> "new", before |-> <<>>, got |-> <<>>]
    /\ message = <<>>
    /\ handler = "none"
    /\ data = <<>>
    /\ upos = 0
    /\ buffer = Buffer_with_capacity(0)
    /\ stream = <<>>
    /\ driver = "test"
    /\ running = FALSE
    /\ res = [ok |-> TRUE, why |-> "start"]
    /\ calls = <<>>
    /\ fragmented = TRUE
    /\ NoChunkStream

\* Headers::transfer_encoding()
HeadersTransferEncoding ==
    /\ op.name = "new"
    /\ op' = [name |-> "transfer_encoding", before |-> hdrs,
              got |-> Headers_transfer_encoding(hdrs)]
    /\ UNCHANGED <<hdrs, data, upos, buffer, message, handler>>
    /\ UNCHANGED svars
    /\ UNCHANGED cvars

CodingNext == HeadersTransferEncoding

CodingSpec == CodingInit /\ [][CodingNext]_vars

(***************************************************************************)
(* write_to of a Request or a Response into a sink (src/src/api.rs,        *)
(* src/src/ast.rs).  A sink takes the whole of what a write call offers    *)
(* (a Vec<u8>) or at most `accept` bytes of it (a socket under load).      *)
(***************************************************************************)
MaxAccept == 2

Sinks == {[whole |-> TRUE, accept |-> 0]} \cup {[whole |-> FALSE, accept |-> q] : q \in 1..MaxAccept}

\* Write::write(bytes) : how many of the bytes the sink takes
Write_write(sink, bytes) == IF sink.whole THEN Len(bytes) ELSE Min(Len(bytes), sink.accept)

\* the bytes a Reader entity of `limit` bytes yields until EOF
FileBytes(limit) == [j \in 1..limit |-> 48 + j]

\* WriteTo for MessageBody : io::copy for a Reader (read to EOF, write_all),
\* one writer.write(slice) for a Slice, nothing for None
MessageBody_write_to(body, sink) ==
    CASE body.kind = "Reader" -> [n |-> body.limit, written |-> FileBytes(body.limit)]
      [] body.kind = "Slice" ->
           [n |-> Write_write(sink, body.bytes),
            written |-> SubSeq(body.bytes, 1, Write_write(sink, body.bytes))]
      [] OTHER -> [n |-> 0, written |-> <<>>]

\* format!("{}{}\r\n", start line, headers) of write_to
Message_head_text(m) ==
    (IF m.type = "Request"
     THEN m.method \o <<SP>> \o Uri_display(m.uri) \o <<SP>>
          \o HttpVersion_display([major |-> 1, minor |-> 1]) \o CRLF
     ELSE HttpVersion_display([major |-> 1, minor |-> 1]) \o <<SP>>
          \o format_u64(m.code) \o <<SP>> \o m.description \o CRLF)
    \o Headers_display(m.headers) \o CRLF

\* WriteTo for Request and for Response : one write.write(text.as_bytes()),
\* then entity.write_to(write); Ok(head + body)
Message_write_to(m, sink, head, body) ==
    [ret |-> head + body.n,
     out |-> SubSeq(Message_head_text(m), 1, head) \o body.written]

\* message.write_to(sink); a Reader entity is left at EOF
MessageWriteTo ==
    /\ \E sink \in Sinks :
          op' = [name |-> "write_to", sink |-> sink, of |-> message,
                 done |-> Message_write_to(message, sink,
                                           Write_write(sink, Message_head_text(message)),
                                           MessageBody_write_to(message.entity, sink))]
    /\ message' = IF message.entity.kind = "Reader"
                  THEN [message EXCEPT !.entity = ReaderBody(0)] ELSE message
    /\ UNCHANGED <<data, upos, buffer, hdrs, handler>>
    /\ UNCHANGED svars
    /\ UNCHANGED cvars

WriteNext == ResponseCall \/ RequestCall \/ MessageWriteTo

WriteSpec == ApiInit /\ [][WriteNext]_vars

(***************************************************************************)
(* message_head (src/src/grammar.rs) applied to what has arrived so far    *)
(* of a valid message head: data is the head, upos the bytes arrived.      *)
(***************************************************************************)
MaxArrive == 2

\* a request line with no, one, two and a folded header, and a status line
HeadInputs ==
    {Template(id).head : id \in {"plain", "cl3", "twocl"}}
      \cup {GET_LINE \o HeaderLine(Text("X"), <<97, CR, LF, SP, 98>>) \o CRLF,
            STATUS_LINE \o HeaderLine(Text("X"), Text("a")) \o CRLF}

HeadInit ==
    /\ data \in HeadInputs
    /\ upos = 0
    /\ op = NoOp
    /\ message = <<>>
    /\ hdrs = <<>>
    /\ handler = "none"
    /\ buffer = Buffer_with_capacity(0)
    /\ stream = <<>>
    /\ driver = "test"
    /\ running = FALSE
    /\ res = [ok |-> TRUE, why |-> "start"]
    /\ calls = <<>>
    /\ fragmented = TRUE
    /\ NoChunkStream

\* more bytes arrive and message_head is run on all that has arrived
MessageHeadAgain ==
    /\ upos < Len(data)
    /\ \E n \in 1..MaxArrive :
          /\ upos' = Min(upos + n, Len(data))
          /\ op' = [name |-> "message_head",
                    parsed |-> message_head(SubSeq(data, 1, Min(upos + n, Len(data))), 1)]
    /\ UNCHANGED <<data, buffer, message, hdrs, handler>>
    /\ UNCHANGED svars
    /\ UNCHANGED cvars

HeadNext == MessageHeadAgain

HeadSpec == HeadInit /\ [][HeadNext]_vars

(***************************************************************************)
(* field_value and header_field (src/src/grammar.rs) on values made of     *)
(* visible bytes, blanks and obs-folds.                                    *)
(***************************************************************************)
MaxPieces == 3

\* "a", "b", a blank, and the folds CRLF SP and CRLF HTAB SP
ValuePieces == {<<97>>, <<98>>, <<SP>>, CRLF \o <<SP>>, CRLF \o <<HTAB, SP>>}

ValueInit ==
    /\ \E pieces \in UNION {[1..n -> ValuePieces] : n \in 0..MaxPieces} : data = Concat(pieces)
    /\ upos = 0
    /\ op = NoOp
    /\ message = <<>>
    /\ hdrs = <<>>
    /\ handler = "none"
    /\ buffer = Buffer_with_capacity(0)
    /\ stream = <<>>
    /\ driver = "test"
    /\ running = FALSE
    /\ res = [ok |-> TRUE, why |-> "start"]
    /\ calls = <<>>
    /\ fragmented = TRUE
    /\ NoChunkStream

\* field_value(data)
FieldValue ==
    /\ op.name = "none"
    /\ op' = [name |-> "field_value", parsed |-> field_value(data, 1)]
    /\ UNCHANGED <<data, upos, buffer, message, hdrs, handler>>
    /\ UNCHANGED svars
    /\ UNCHANGED cvars

\* header_field("X:" ++ data)
HeaderField ==
    /\ op.name = "none"
    /\ op' = [name |-> "header_field", parsed |-> header_field(Text("X") \o COLON \o data, 1)]
    /\ UNCHANGED <<data, upos, buffer, message, hdrs, handler>>
    /\ UNCHANGED svars
    /\ UNCHANGED cvars

ValueNext == FieldValue \/ HeaderField

ValueSpec == ValueInit /\ [][ValueNext]_vars

(***************************************************************************)
(* BufferedRead::read_segment and ::read_from (src/src/io.rs) over a       *)
(* source of the bytes 1, 2, .. : data is the source, upos what has been   *)
(* read from it, buffer the Buffer of the outermost BufferedRead.  A       *)
(* closure is written down as the read_segment calls it makes on the       *)
(* nested reader, in order, and what it then answers: Err, or Ok with      *)
(* none, one or all of the bytes it was handed.                            *)
(***************************************************************************)
MaxData == 4
MaxSegCap == 3

Answers == {"err", "none", "one", "all"}

Closure(nested, answer) == [nested |-> nested, answer |-> answer]

\* closures that leave the nested reader alone, that nest once, and that
\* nest twice in a row or nest a closure that nests
Closures0 == {Closure(<<>>, a) : a \in Answers}
Closures1 == Closures0 \cup {Closure(<<c>>, a) : c \in Closures0, a \in Answers}
Closures2 ==
    Closures1
      \cup {Closure(<<c>>, a) : c \in Closures1 \ Closures0, a \in Answers}
      \cup {Closure(<<c, d>>, a) : c \in Closures0, d \in Closures0, a \in Answers}

\* the count of Ok(count)
Answer_count(answer, head) ==
    CASE answer = "all" -> Len(head)
      [] answer = "one" -> Min(1, Len(head))
      [] OTHER -> 0

\* inner.read(slice) : the source gives at most p.frag bytes at a time
Source_read(buf, up, p) ==
    SubSeq(data, up + 1, up + Min(p.frag, Min(Buffer_space(buf), Len(data) - up)))

\* what a read_segment call leaves: the Buffer, the position of the source,
\* whether it answered Ok, the bytes the closures consumed, the heads the
\* closures were handed, and the bytes handed back by the nested reader
Segment(buf, up, ok, consumed, heads, back) ==
    [buffer |-> buf, upos |-> up, ok |-> ok, consumed |-> consumed, heads |-> heads,
     back |-> back]

RECURSIVE read_segment(_, _, _, _)
RECURSIVE read_segment_nested(_, _, _, _)

\* a read_segment that drops what the nested reader holds unread
read_segment_back_dropped(after, t, p) == after

\* b.reserve(buffer.len()); b.from(buffer) : the unread bytes of the nested
\* Buffer are copied behind those of the outer one
read_segment_back(after, t, p) ==
    CHOOSE r \in {Buffer_from(b, SubSeq(Buffer_as_read(t.buffer), 1,
                                        Min(Buffer_len(t.buffer), Buffer_space(b)))) :
                    b \in {Buffer_reserve(after, Buffer_len(t.buffer), p.grown, TRUE).buffer}} :
       TRUE

\* buffer.read_from(|slice| fun(slice, &mut buffered)), t being what the
\* closure's calls on the nested reader left
read_segment_closure(filled, cl, p, t) ==
    Segment(read_segment_back(
                Buffer_read_from(filled, cl.answer # "err",
                                 Answer_count(cl.answer, Buffer_as_read(filled))).buffer,
                t, p),
            t.upos,
            cl.answer # "err",
            t.consumed \cup
               {Buffer_as_read(filled)[j] :
                  j \in 1..Answer_count(cl.answer, Buffer_as_read(filled))},
            <<Buffer_as_read(filled)>> \o t.heads,
            Buffer_as_read(t.buffer))

\* after self.fill() : a nested BufferedRead of the same capacity on inner
read_segment_filled(filled, up, cl, p) ==
    CHOOSE r \in {read_segment_closure(filled, cl, p, t) :
                    t \in {read_segment_nested(Buffer_with_capacity(Buffer_capacity(filled)),
                                               up, cl.nested, p)}} : TRUE

read_segment(buf, up, cl, p) ==
    CHOOSE r \in {read_segment_filled(Buffer_from(buf, bytes), up + Len(bytes), cl, p) :
                    bytes \in {Source_read(buf, up, p)}} : TRUE

\* the closure's read_segment calls on the nested reader, one after another
read_segment_then(r, rest, p, t) ==
    Segment(t.buffer, t.upos, TRUE, r.consumed \cup t.consumed, r.heads \o t.heads, <<>>)

read_segment_next(r, rest, p) ==
    CHOOSE n \in {read_segment_then(r, rest, p, t) :
                    t \in {read_segment_nested(r.buffer, r.upos, rest, p)}} : TRUE

read_segment_nested(nb, up, list, p) ==
    IF Len(list) = 0 THEN Segment(nb, up, TRUE, {}, <<>>, <<>>)
    ELSE CHOOSE n \in {read_segment_next(r, Tail(list), p) :
                         r \in {read_segment(nb, up, Head(list), p)}} : TRUE

\* the Buffer as the closure met it: its cursors and the bytes it was handed
Met(buf) ==
    [read_position |-> buf.read_position, write_position |-> buf.write_position,
     head |-> Buffer_as_read(buf)]

\* op.consumed : all the bytes consumed so far; op.last : whether the call
\* before answered Ok and, if not, the bytes its closure was handed
SegmentInit ==
    /\ data = [j \in 1..MaxData |-> j]
    /\ upos = 0
    /\ \E capacity \in 2..MaxSegCap : buffer = Buffer_with_capacity(capacity)
    /\ fragmented \in BOOLEAN
    /\ op = [name |-> "new", ok |-> TRUE, met |-> Met(buffer), took |-> {}, back |-> <<>>,
             consumed |-> {}, last |-> [ok |-> TRUE, head |-> <<>>]]
    /\ message = <<>>
    /\ hdrs = <<>>
    /\ handler = "none"
    /\ stream = <<>>
    /\ driver = "test"
    /\ running = FALSE
    /\ res = [ok |-> TRUE, why |-> "start"]
    /\ calls = <<>>
    /\ NoChunkStream

SourceOf(grown) == [frag |-> IF fragmented THEN MaxFrag ELSE Len(data), grown |-> grown]

\* what op records of a call: the Buffer as the closure met it and what the
\* call left
Segment_op(name, met, r) ==
    [name |-> name, ok |-> r.ok, met |-> Met(met), took |-> r.consumed,
     back |-> r.back, consumed |-> op.consumed \cup r.consumed,
     last |-> [ok |-> op.ok, head |-> IF op.ok THEN <<>> ELSE op.met.head]]

\* BufferedRead::read_segment(fun); Vec::reserve allocates `grown` bytes
\* beyond need
BufferedRead_read_segment ==
    \E cl \in Closures2, grown \in 0..1 :
       \E r \in {read_segment(buffer, upos, cl, SourceOf(grown))} :
          /\ buffer' = r.buffer
          /\ upos' = r.upos
          /\ op' = Segment_op("read_segment",
                              Buffer_from(buffer, Source_read(buffer, upos, SourceOf(grown))),
                              r)
          /\ UNCHANGED <<data, message, hdrs, handler>>
          /\ UNCHANGED <<stream, driver, running, res, calls, fragmented>>
          /\ UNCHANGED cvars

\* BufferedRead::read_from(fun) : self.fill()? ; self.buffer.read_from(fun)
BufferedRead_read_from ==
    \E a \in Answers, filled \in {Buffer_from(buffer, Source_read(buffer, upos, SourceOf(0)))} :
       /\ buffer' = Buffer_read_from(filled, a # "err",
                                     Answer_count(a, Buffer_as_read(filled))).buffer
       /\ upos' = upos + Len(Source_read(buffer, upos, SourceOf(0)))
       /\ op' = Segment_op("read_from", filled,
                           Segment(buffer', upos', a # "err",
                                   {Buffer_as_read(filled)[k] :
                                      k \in 1..Answer_count(a, Buffer_as_read(filled))},
                                   <<Buffer_as_read(filled)>>, <<>>))
       /\ UNCHANGED <<data, message, hdrs, handler>>
       /\ UNCHANGED <<stream, driver, running, res, calls, fragmented>>
       /\ UNCHANGED cvars

SegmentNext == BufferedRead_read_segment \/ BufferedRead_read_from

SegmentSpec == SegmentInit /\ [][SegmentNext]_vars

(***************************************************************************)
(* join_slice, reduce_slice, is_adjacent and reduce_vec (src/src/misc.rs). *)
(* A slice is where it starts in memory and how long it is; Memory is the  *)
(* bytes at the addresses 1..MaxMem.  op.vec is the vector reduce_vec is   *)
(* given.                                                                  *)
(***************************************************************************)
MaxMem == 4
MaxSlices == 3

Memory == [j \in 1..MaxMem |-> 64 + j]

Slice(ptr, len) == [ptr |-> ptr, len |-> len]

\* Default::default() : the empty slice, which points at no byte of Memory
DefaultSlice == Slice(0, 0)

\* the slices of Memory, the empty ones among them, and Default::default()
Slices ==
    {s \in [ptr : 1..(MaxMem + 1), len : 0..MaxMem] : s.ptr + s.len <= MaxMem + 1}
       \cup {DefaultSlice}

Vecs == UNION {[1..n -> Slices] : n \in 0..MaxSlices}

\* slice2.as_ptr() == slice1.as_ptr().offset(slice1.len())
is_adjacent(slice1, slice2) == slice2.ptr = slice1.ptr + slice1.len

\* slice::from_raw_parts(slice1.as_ptr(), slice1.len() + slice2.len())
from_raw_parts(ptr, len) == Slice(ptr, len)

\* join_slice : Ok(slice) or Err(SliceError::NotAdjacent)
join_slice(slice1, slice2) ==
    IF slice1.len = 0 THEN [ok |-> TRUE, slice |-> slice2]
    ELSE IF slice2.len = 0 THEN [ok |-> TRUE, slice |-> slice1]
    ELSE IF is_adjacent(slice1, slice2)
         THEN [ok |-> TRUE, slice |-> from_raw_parts(slice1.ptr, slice1.len + slice2.len)]
    ELSE [ok |-> FALSE, slice |-> DefaultSlice]

\* Result<&[u8], Vec<&[u8]>>
OkSlice(slice) == [ok |-> TRUE, slice |-> slice, vec |-> <<>>]
ErrVec(vec) == [ok |-> FALSE, slice |-> DefaultSlice, vec |-> vec]

\* reduce_slice : Ok(slice) or Err(vec!(slice1, slice2))
reduce_slice(slice1, slice2) ==
    IF slice1.len = 0 THEN OkSlice(slice2)
    ELSE IF slice2.len = 0 THEN OkSlice(slice1)
    ELSE IF is_adjacent(slice1, slice2)
         THEN OkSlice(from_raw_parts(slice1.ptr, slice1.len + slice2.len))
    ELSE ErrVec(<<slice1, slice2>>)

\* a reduce_vec whose Err arm pushes slice2 without trying to join it
reduce_vec_fold_pushing(a, slice2) ==
    IF a.ok THEN reduce_slice(a.slice, slice2)
    ELSE ErrVec(a.vec \o <<slice2>>)

\* the closure reduce_vec folds with : |a, slice2| match a { .. }
reduce_vec_fold(a, slice2) ==
    IF a.ok THEN reduce_slice(a.slice, slice2)
    ELSE IF join_slice(a.vec[Len(a.vec)], slice2).ok
         THEN ErrVec(SubSeq(a.vec, 1, Len(a.vec) - 1)
                       \o <<join_slice(a.vec[Len(a.vec)], slice2).slice>>)
    ELSE ErrVec(SubSeq(a.vec, 1, Len(a.vec) - 1) \o <<a.vec[Len(a.vec)], slice2>>)

RECURSIVE fold(_, _)
fold(a, vec) ==
    IF Len(vec) = 0 THEN a ELSE fold(reduce_vec_fold(a, Head(vec)), Tail(vec))

reduce_vec(vec) ==
    IF Len(vec) = 0 THEN OkSlice(DefaultSlice)
    ELSE fold(OkSlice(DefaultSlice), vec)

ReduceInit ==
    /\ \E vec \in Vecs : op = [name |-> "new", vec |-> vec, ret |-> OkSlice(DefaultSlice)]
    /\ message = <<>>
    /\ hdrs = <<>>
    /\ handler = "none"
    /\ data = <<>>
    /\ upos = 0
    /\ buffer = Buffer_with_capacity(0)
    /\ stream = <<>>
    /\ driver = "test"
    /\ running = FALSE
    /\ res = [ok |-> TRUE, why |-> "start"]
    /\ calls = <<>>
    /\ fragmented = TRUE
    /\ NoChunkStream

\* reduce_vec(vec)
ReduceVec ==
    /\ op.name = "new"
    /\ op' = [name |-> "reduce_vec", vec |-> op.vec, ret |-> reduce_vec(op.vec)]
    /\ UNCHANGED <<data, upos, buffer, message, hdrs, handler>>
    /\ UNCHANGED svars
    /\ UNCHANGED cvars

ReduceNext == ReduceVec

ReduceSpec == ReduceInit /\ [][ReduceNext]_vars

(***************************************************************************)
(* What the claims speak of.                                               *)
(***************************************************************************)
\* offset in data of the next byte the connection has not consumed
Offset == upos - Buffer_len(buffer)

\* the callback invocation c was handed message i of the stream
IsMsg(c, i) == i \in 1..Len(stream) /\ c.start = MsgStart(i)

\* bytes of message i that the source really holds after its head
BodyOnWire(i) ==
    SubSeq(data, MsgStart(i) + Len(Template(stream[i]).head) + 1, MsgEnd(i))

\* bytes that followed the head in the slice Message::read was given
SliceRest(c) == c.slice_length - c.head_length

\* the last Stream::read returned Ok, so calls ends with its callback
Returned == res.ok /\ res.why = "callback"

(***************************************************************************)
(* C1: when Stream::read returns Ok for a message framed by Content-Length *)
(* (or without a body), every body byte of it is gone from the buffer and  *)
(* from the upstream, and the head of the next message is parsed exactly   *)
(* where that body ends.                                                   *)
(***************************************************************************)
C1_BodyConsumedBeforeNextHead ==
    \A j \in 1..Len(calls), i \in 1..Len(stream) :
        (IsMsg(calls[j], i) /\ Template(stream[i]).framing \in {"none", "length"}) =>
            /\ (j < Len(calls) => calls[j + 1].start = MsgEnd(i))
            /\ ((j = Len(calls) /\ Returned) => Offset = MsgEnd(i))

C1_Witness ==
    /\ Len(calls) = 2 /\ Returned
    /\ calls[1].message.entity.kind = "Reader"
    /\ SliceRest(calls[1]) = 1
    /\ IsMsg(calls[1], 1) /\ IsMsg(calls[2], 2)
    /\ Offset = Len(data)

(***************************************************************************)
(* C2: dropping a Reader body of declared length N of which the callback   *)
(* read k bytes removes the other N - k bytes from the stream and no more; *)
(* two back-to-back messages whose bodies are ignored are both delivered,  *)
(* the second starting where the body of the first ends.                   *)
(***************************************************************************)
C2_DropDrainsExactly ==
    /\ \A j \in 1..Len(calls), i \in 1..Len(stream) :
          LET c == calls[j]
              N == Template(stream[i]).n
          IN  (IsMsg(c, i) /\ Template(stream[i]).framing = "length"
                 /\ c.message.entity.kind = "Reader") =>
                  /\ SliceRest(c) + c.taken <= N
                  /\ (MsgStart(i) + c.head_length + N <= Len(data) =>
                        (SliceRest(c) + c.taken) - c.k = N - c.k)
    /\ (/\ Len(stream) = 2
        /\ \A i \in 1..2 : Template(stream[i]).framing = "length"
        /\ Offset = Len(data)
        /\ \A j \in 1..Len(calls) : calls[j].k = 0 /\ calls[j].hres = "ok")
       => (Len(calls) = 2 /\ calls[2].start = MsgStart(2))

C2_Witness ==
    /\ Len(calls) = 2
    /\ calls[1].message.entity.kind = "Reader"
    /\ calls[1].k = 2 /\ SliceRest(calls[1]) = 0 /\ calls[1].taken = 3
    /\ calls[2].message.entity.kind = "Reader"
    /\ calls[2].start = MsgStart(2)

(***************************************************************************)
(* C3: a message with Transfer-Encoding: chunked and a Content-Length is   *)
(* framed by the chunks: the body is not the Content-Length bytes, and     *)
(* when Stream::read returns Ok the connection stands at the end of the    *)
(* chunked body.                                                           *)
(***************************************************************************)
C3_ChunkedOverridesLength ==
    \A j \in 1..Len(calls), i \in 1..Len(stream) :
        (IsMsg(calls[j], i) /\ Template(stream[i]).framing = "chunked") =>
            /\ calls[j].message.entity.kind \notin {"Slice", "Reader"}
            /\ ((j = Len(calls) /\ Returned) => Offset = MsgEnd(i))

(***************************************************************************)
(* C4: Content-Length N > 0 with at least N bytes after the head in the    *)
(* slice gives a Slice of exactly those N bytes and a consumed count of    *)
(* head_length + N; what follows stays in the buffer.                      *)
(***************************************************************************)
C4_SliceBody ==
    \A j \in 1..Len(calls), i \in 1..Len(stream) :
        LET c == calls[j]
            t == Template(stream[i])
        IN  (IsMsg(c, i) /\ t.framing = "length" /\ t.n > 0 /\ SliceRest(c) >= t.n) =>
                /\ c.message.entity.kind = "Slice"
                /\ c.message.entity.bytes = t.body
                /\ c.head_length = Len(t.head)
                /\ c.count = c.head_length + t.n
                /\ ((j = Len(calls) /\ Returned) =>
                      Buffer_as_read(buffer)
                        = SubSeq(data, c.start + c.count + 1, c.start + c.slice_length))

C4_Witness ==
    /\ Len(calls) = 1 /\ Returned
    /\ calls[1].message.entity.kind = "Slice"
    /\ Buffer_len(buffer) > 0
    /\ Len(stream) = 2 /\ Buffer_as_read(buffer) = Wire(stream[2])

(***************************************************************************)
(* C5: Content-Length N with only r < N bytes after the head in the slice  *)
(* gives a Reader that yields those r bytes, then the next N - r bytes of  *)
(* the upstream, then EOF; it takes no more than N - r bytes from the      *)
(* upstream, and the consumed count is head_length + r.                    *)
(***************************************************************************)
C5_ReaderBody ==
    \A j \in 1..Len(calls), i \in 1..Len(stream) :
        LET c == calls[j]
            t == Template(stream[i])
        IN  (IsMsg(c, i) /\ t.framing = "length" /\ SliceRest(c) < t.n) =>
                /\ c.message.entity.kind = "Reader"
                /\ c.count = c.head_length + SliceRest(c)
                /\ c.head_length = Len(t.head)
                /\ c.reach = Len(BodyOnWire(i))
                /\ c.got = SubSeq(BodyOnWire(i), 1, c.k)
                /\ c.taken <= t.n - SliceRest(c)

C5_Witness ==
    \E j \in 1..Len(calls) :
        /\ calls[j].message.entity.kind = "Reader"
        /\ SliceRest(calls[j]) = 1
        /\ calls[j].k = 3 /\ calls[j].got = ABC
        /\ upos < Len(data)

\* the Content-Length values of a message, as written, in header order
ContentLengths(id) ==
    CASE id = "dupcl" -> << <<120>>, <<50>> >>
      [] id = "twocl" -> << <<49>>, <<50>> >>
      [] OTHER -> << >>

IsDecimal(text) == Len(text) > 0 /\ \A j \in 1..Len(text) : text[j] \in is_digit

\* the body length a callback invocation was framed with
FramedLength(c) ==
    IF c.message.entity.kind = "None" THEN 0
    ELSE Len(c.message.entity.bytes) + c.message.entity.limit

(***************************************************************************)
(* C6 (as stated): with several Content-Length headers the body is framed  *)
(* by the first value, in header order, that parses as a number.           *)
(***************************************************************************)
C6_FirstParsableLength ==
    \A j \in 1..Len(calls), i \in 1..Len(stream) :
        (IsMsg(calls[j], i) /\ Template(stream[i]).framing = "lengths") =>
            /\ calls[j].message.entity.kind # "None"
            /\ FramedLength(calls[j]) = Template(stream[i]).n

(***************************************************************************)
(* C6 (amended): with several Content-Length headers only the first one,   *)
(* in header order, is looked at: the body is framed by its value when it  *)
(* parses as a number, and is None, with only the head consumed, when it   *)
(* does not, whatever the later headers say.                               *)
(***************************************************************************)
C6_FirstLengthOnly ==
    \A j \in 1..Len(calls), i \in 1..Len(stream) :
        LET c == calls[j]
            first == Head(ContentLengths(stream[i]))
        IN  (IsMsg(c, i) /\ Template(stream[i]).framing = "lengths") =>
                IF IsDecimal(first)
                THEN /\ c.message.entity.kind # "None"
                     /\ FramedLength(c) = DecimalValue(first)
                ELSE /\ c.message.entity.kind = "None"
                     /\ c.count = c.head_length
                     /\ c.taken = 0

C6_Witness ==
    /\ Len(calls) = 1 /\ Returned
    /\ stream[1] = "dupcl" /\ IsMsg(calls[1], 1)
    /\ calls[1].message.entity.kind = "None"
    /\ Buffer_as_read(buffer) = Template("dupcl").body

(***************************************************************************)
(* C7: without a Content-Length header and with Content-Length 0 the body  *)
(* is None and only the head is consumed.                                  *)
(***************************************************************************)
C7_NoBody ==
    \A j \in 1..Len(calls), i \in 1..Len(stream) :
        LET c == calls[j]
            t == Template(stream[i])
        IN  (IsMsg(c, i) /\ stream[i] \in {"plain", "cl0"}) =>
                /\ c.message.entity.kind = "None"
                /\ c.count = Len(t.head)
                /\ c.taken = 0

C7_Witness ==
    /\ Len(calls) = 2
    /\ stream = <<"cl0", "plain">>
    /\ calls[1].message.entity.kind = "None"
    /\ calls[2].message.entity.kind = "None"
    /\ calls[2].start = MsgStart(2)

(***************************************************************************)
(* C8: a request whose Transfer-Encoding does not end in chunked is not    *)
(* handed to the handler; the engine answers it with 400.                  *)
(***************************************************************************)
C8_NotChunkedRejected ==
    \A j \in 1..Len(calls), i \in 1..Len(stream) :
        ~(IsMsg(calls[j], i) /\ Template(stream[i]).framing = "not-chunked")

\* the source ends before message i has its Content-Length bytes
Truncated(i) ==
    /\ Template(stream[i]).framing = "length"
    /\ Len(BodyOnWire(i)) < Template(stream[i]).n

(***************************************************************************)
(* C9: when the upstream ends before the Content-Length bytes of a body    *)
(* have arrived, Stream::read does not return Ok for that message: a short *)
(* body is never passed off as a complete one.                             *)
(***************************************************************************)
C9_TruncatedBodyIsError ==
    \A i \in 1..Len(stream) :
        ~(/\ Returned
          /\ IsMsg(calls[Len(calls)], i)
          /\ Truncated(i))

\* the buffer holds a proper, non-empty prefix of the head of message i
HeadPending(i) ==
    /\ Offset = MsgStart(i)
    /\ Buffer_len(buffer) > 0
    /\ Buffer_len(buffer) < Len(Template(stream[i]).head)
    /\ Len(Template(stream[i]).head) <= Buffer_capacity(buffer)

(***************************************************************************)
(* C10: while the buffer holds only a proper prefix of a valid head, the   *)
(* server keeps the connection: the incomplete parse is no error, the      *)
(* buffer is refilled and the parse retried.                               *)
(***************************************************************************)
C10_IncompleteHeadRetried ==
    \A i \in 1..Len(stream) :
        (driver = "server" /\ HeadPending(i)) => (running /\ res.ok)

\* the upstream is at EOF and the last Stream::read failed on a read of 0 bytes
EofRead == upos = Len(data) /\ ~res.ok /\ res.why = "No data consumed"

(***************************************************************************)
(* C11: body-less requests delivered in fragments into a buffer that can   *)
(* hold them all are handed to the callback in stream order, each equal    *)
(* to the request parsed on its own, and once the source is exhausted all  *)
(* of them have been delivered and no byte is left in the buffer.          *)
(***************************************************************************)
C11_FragmentedRequestsDelivered ==
    (/\ driver = "test"
     /\ fragmented
     /\ \A i \in 1..Len(stream) : stream[i] = "plain"
     /\ Buffer_capacity(buffer) >= Len(data))
    => /\ \A j \in 1..Len(calls) :
             /\ calls[j].start = MsgStart(j)
             /\ calls[j].message = Message_read(Wire("plain")).message
       /\ (EofRead => (Len(calls) = Len(stream) /\ Buffer_len(buffer) = 0))

(***************************************************************************)
(* C12: a read of 0 bytes at EOF does not keep Stream::read from parsing   *)
(* what is buffered: it never returns "No data consumed" while the buffer  *)
(* holds a complete message.                                               *)
(***************************************************************************)
C12_EofStillParsesBuffer ==
    \A i \in 1..Len(stream) :
        ~(/\ EofRead
          /\ Offset = MsgStart(i)
          /\ Buffer_len(buffer) >= Len(Wire(stream[i])))

\* every byte of the source has been read and consumed
AllConsumed == upos = Len(data) /\ Buffer_len(buffer) = 0

\* the stream holds only body-less and Content-Length messages
LengthFramed == \A i \in 1..Len(stream) : Template(stream[i]).framing \in {"none", "length"}

(***************************************************************************)
(* C13: once every message has been delivered and the upstream is at EOF   *)
(* with an empty buffer, the callback has been invoked exactly once per    *)
(* message, in order, and a further Stream::read returns an error without  *)
(* invoking the callback.                                                  *)
(***************************************************************************)
C13_ReadAfterEndIsError ==
    /\ [](( LengthFramed /\ AllConsumed) =>
            /\ Len(calls) = Len(stream)
            /\ \A j \in 1..Len(calls) : IsMsg(calls[j], j))
    /\ [][(LengthFramed /\ AllConsumed /\ Len(stream) > 0) =>
             (~res'.ok /\ calls' = calls /\ AllConsumed')]_vars

C13_Witness ==
    /\ AllConsumed /\ EofRead
    /\ stream = <<"cl3", "cl3">>
    /\ Len(calls) = 2
    /\ calls[1].message.entity.kind = "Reader"
    /\ calls[2].message.entity.kind = "Reader"

(***************************************************************************)
(* What the claims about chunked bodies speak of.                          *)
(***************************************************************************)
\* offset in data just past the chunked body
CBodyEnd == Len(CWire(cbody))

\* offset in data of chunk i; chunk Len(chunks) + 1 is the last-chunk
CChunkStart(i) == Len(ChunksWire(SubSeq(CTemplate(cbody).chunks, 1, i - 1)))

CDataChunks == 1..Len(CTemplate(cbody).chunks)

\* the body ends in CRLF and the source holds all of it
CWellFormed == CTemplate(cbody).final = CRLF /\ Len(data) >= CBodyEnd

\* the last call of next() ran Chunk::read on the bytes from offset clast.at
ChunkWasRead == clast.ret \in {"Slice", "Last", "Err", "Panic"} /\ clast.avail > 0

(***************************************************************************)
(* C14: dropping a ChunkStream, whatever was taken from it before, drains  *)
(* it: when Drop has returned the stream is Finished and the underlying    *)
(* reader stands just past the chunked body, however the body was split    *)
(* across fills.                                                           *)
(***************************************************************************)
C14_DropDrainsChunks ==
    (CWellFormed /\ clast.via = "drop") =>
        /\ cphase # "panicked"
        /\ (cphase = "dropped" => (cstate = Finished /\ Offset = CBodyEnd))

(***************************************************************************)
(* C15: Read::read on a ChunkStream, for every destination size of at      *)
(* least one byte, copies out each payload whole: it does not panic, and   *)
(* what it returns for a data chunk is the chunk's payload.                *)
(***************************************************************************)
C15_ReadYieldsPayloads ==
    \A i \in CDataChunks :
        (/\ CWellFormed
         /\ clast.via = "read"
         /\ clast.at = CChunkStart(i)
         /\ clast.at + clast.avail >= CBodyEnd) =>
            /\ clast.ret = "Slice"
            /\ clast.payload = CTemplate(cbody).chunks[i]

(***************************************************************************)
(* C16: the call of next() after the one that yielded Last(n) advances     *)
(* the reader by exactly n, leaves the stream Finished and returns None;   *)
(* every call made when Finished returns None and advances nothing; when   *)
(* the last-chunk was read whole the reader then stands just past the      *)
(* chunked body.                                                           *)
(***************************************************************************)
C16_LastThenFinished ==
    /\ clast.before.k = "Last" =>
          /\ clast.ret = "None" /\ cstate = Finished
          /\ clast.adv = clast.before.n
          /\ cprev.ret = "Last" /\ clast.before.n = cprev.consumed
          /\ Offset = cprev.at + cprev.consumed
          /\ ((CWellFormed /\ cprev.at = CChunkStart(Len(CTemplate(cbody).chunks) + 1)
                 /\ cprev.at + cprev.avail >= CBodyEnd) => Offset = CBodyEnd)
    /\ clast.before.k = "Finished" =>
          /\ clast.ret = "None" /\ cstate = Finished
          /\ clast.adv = 0
          /\ Offset = cprev.at

C16_Witness ==
    /\ clast.before.k = "Finished" /\ cprev.before.k = "Last"
    /\ cbody = "two" /\ cyield = 3
    /\ Offset = CBodyEnd
    /\ Buffer_as_read(buffer) = NEXT_MESSAGE

(***************************************************************************)
(* C17: what a call of next() consumes from the reader is the count of     *)
(* the chunk the call before it yielded, and nothing when that call        *)
(* yielded no chunk: a count is applied once.                              *)
(***************************************************************************)
C17_ConsumedAppliedOnce ==
    (clast.via # "none" /\ cprev.via # "none") =>
        clast.adv = (IF cprev.ret \in {"Slice", "Last"} THEN cprev.consumed ELSE 0)

(***************************************************************************)
(* C18: Chunk::read on input that begins with a complete data chunk of     *)
(* size s > 0 gives a Slice of the s payload bytes and a consumed count    *)
(* of head_len + s + 2, the length of the chunk on the wire.               *)
(***************************************************************************)
C18_DataChunk ==
    \A i \in CDataChunks :
        LET payload == CTemplate(cbody).chunks[i]
        IN  (/\ ChunkWasRead
             /\ clast.at = CChunkStart(i)
             /\ clast.avail >= Len(ChunkWire(payload))
             /\ clast.at + clast.avail <= Len(data)) =>
                /\ clast.ret \in {"Slice", "Panic"}
                /\ (clast.ret = "Panic" => clast.via = "read")
                /\ clast.payload = payload
                /\ clast.consumed = Len(ChunkWire(payload))
                /\ cstate = Consumed(3 + Len(payload) + 2)

C18_Witness ==
    /\ cbody = "two" /\ clast.via = "next"
    /\ clast.ret = "Slice" /\ clast.at = CChunkStart(2)
    /\ clast.payload = SubSeq(ABC, 3, 3)
    /\ clast.consumed = 6

(***************************************************************************)
(* C19: Chunk::read gives Last only when the final CRLF of the chunked     *)
(* body is in its input right after the trailers, and the consumed count   *)
(* is the offset just past that CRLF.                                      *)
(***************************************************************************)
C19_LastNeedsFinalCrlf ==
    clast.ret = "Last" =>
        /\ clast.consumed <= clast.avail
        /\ SubSeq(data, clast.at + clast.consumed - 1, clast.at + clast.consumed) = CRLF

(***************************************************************************)
(* C20: when fewer bytes than the declared size follow a chunk head,       *)
(* the chunk reader returns an error.                                      *)
(***************************************************************************)
C20_ShortChunkIsError ==
    \A i \in CDataChunks :
        (/\ ChunkWasRead
         /\ clast.at = CChunkStart(i)
         /\ clast.avail >= 3
         /\ clast.avail - 3 < Len(CTemplate(cbody).chunks[i])) =>
            clast.ret = "Err"

(***************************************************************************)
(* C21  An I/O error of the underlying source while an abandoned body is   *)
(* drained on drop, be it a Reader MessageBody or a ChunkStream, does not  *)
(* panic: the drop absorbs the failure.                                    *)
(***************************************************************************)
C21_DrainErrorAbsorbed ==
    (op.name = "drop" /\ op.io \in ErrorKinds) => cphase # "panicked"

(***************************************************************************)
(* C22  In every state reached by any sequence of the public Buffer        *)
(* operations, read_position <= write_position <= capacity.                *)
(***************************************************************************)
C22_CursorsOrdered ==
    /\ buffer.read_position <= buffer.write_position
    /\ buffer.write_position <= Buffer_capacity(buffer)

(***************************************************************************)
(* C23  In every reachable state read_position = write_position implies    *)
(* that both are 0, so that the full capacity is writable.                 *)
(***************************************************************************)
C23_EmptyMeansReset ==
    buffer.read_position = buffer.write_position =>
        /\ buffer.read_position = 0
        /\ buffer.write_position = 0
        /\ Buffer_space(buffer) = Buffer_capacity(buffer)

(***************************************************************************)
(* C24  When the closure given to read_from on a Buffer or a BufferedRead  *)
(* answers Ok(n), exactly the first n readable bytes are removed: the      *)
(* readable region is then what followed them, in order, and a later fill  *)
(* is appended after it.                                                   *)
(***************************************************************************)
C24_ReadFromRemovesPrefix ==
    /\ (op.name \in {"read_from", "fill_read_from"} /\ op.ret = "Ok" /\ op.ok) =>
          /\ Buffer_as_read_ok(buffer)
          /\ Buffer_as_read(buffer) = SubSeq(op.seen, op.n + 1, Len(op.seen))
    /\ (op.name = "from" /\ op.ret = "Ok" /\ op.ok /\ op.valid) =>
          /\ Buffer_as_read_ok(buffer)
          /\ Buffer_as_read(buffer) = op.seen \o op.bytes

(***************************************************************************)
(* C25  For each request the server parses, the handler is invoked once    *)
(* and invokes the response continuation exactly once: the i-th            *)
(* invocation is for the i-th request sent and hands over one response.    *)
(***************************************************************************)
C25_OneResponsePerRequest ==
    \A i \in 1..Len(calls) :
        /\ calls[i].message = Message_read(stream[i]).message
        /\ Len(calls[i].invoked) = 1

(***************************************************************************)
(* C26  After any sequence of Response constructors and fluent builder     *)
(* calls, whenever the entity is None or a Slice the Content-Length header *)
(* is present and equals 0 or the length of the slice.                     *)
(***************************************************************************)
C26_ContentLengthMaintained ==
    (message.type = "Response" /\ message.entity.kind \in {"None", "Slice"}) =>
        /\ Headers_get(message.headers, CONTENT_LENGTH).some
        /\ Headers_get(message.headers, CONTENT_LENGTH).v
              = format_u64(Len(message.entity.bytes))

(***************************************************************************)
(* C27  Converting a parsed HttpMessage into a Message is lossless: the    *)
(* start-line fields, the headers (names, values, count, order) and the    *)
(* body of the result are those of the HttpMessage.                        *)
(***************************************************************************)
C27_ConversionLossless ==
    op.name = "from" =>
        /\ message.headers = op.http.headers
        /\ message.entity = op.http.body
        /\ IF op.http.start_line.line = "RequestLine"
           THEN /\ message.type = "Request"
                /\ message.method = op.http.start_line.method
                /\ Uri_display(message.uri) = op.http.start_line.request_target
           ELSE /\ message.type = "Response"
                /\ message.code = op.http.start_line.code
                /\ message.description = op.http.start_line.description

(***************************************************************************)
(* C28  For every Request and every Response built from borrowed strings   *)
(* and bytes, parsing the text it is formatted to gives back an equal      *)
(* message and leaves no input.                                            *)
(***************************************************************************)
C28_FormatParseRoundTrip ==
    (op.name = "parse" /\ message.entity.kind # "Reader") =>
        /\ op.parsed.ret = "Ok"
        /\ op.parsed.message = message
        /\ op.parsed.remainder = <<>>

\* the name in lower case; two names are the same when these are equal
Lower(name) == [j \in 1..Len(name) |-> to_ascii_lowercase(name[j])]
\* the places of hs whose name is `name` in any case
Matches(hs, name) == {j \in 1..Len(hs) : Lower(hs[j].name) = Lower(name)}

(***************************************************************************)
(* C29  Headers.get(n) returns the value of the first header, in insertion *)
(* order, whose name equals n ignoring ASCII case; every case variation of *)
(* n gets the same answer; None is returned only when no header matches.   *)
(***************************************************************************)
C29_GetFirstIgnoringCase ==
    op.name = "get" =>
        /\ \A j \in Matches(hdrs, op.arg) :
              (\A m \in Matches(hdrs, op.arg) : j <= m) =>
                  op.got.some /\ op.got.v = hdrs[j].value
        /\ ~op.got.some <=> (Matches(hdrs, op.arg) = {})
        /\ \A n \in HeaderNames :
              Lower(n) = Lower(op.arg) =>
                  /\ Headers_get(hdrs, n).some = op.got.some
                  /\ op.got.some => Headers_get(hdrs, n).v = op.got.v

\* get("a") or get("A") where two headers match in different cases and the
\* first of them, spelt otherwise than asked, has another value than the second
C29_Witness ==
    /\ op.name = "get"
    /\ op.got.some
    /\ \E j, m \in Matches(hdrs, op.arg) :
          /\ j < m
          /\ hdrs[j].name # op.arg
          /\ hdrs[j].name # hdrs[m].name
          /\ hdrs[j].value # hdrs[m].value
          /\ op.got.v = hdrs[j].value

(***************************************************************************)
(* C30  After Headers.replace(name, v) exactly one header has that name    *)
(* ignoring ASCII case; it is the last one and has the value v; the other  *)
(* headers keep name, value and relative order.  Headers built from empty  *)
(* by replace and remove never hold two headers of the same name.          *)
(***************************************************************************)
C30_ReplaceLeavesOne ==
    /\ op.name = "replace" =>
          /\ Cardinality(Matches(hdrs, op.arg)) = 1
          /\ hdrs[Len(hdrs)] = [name |-> op.arg, value |-> op.value]
          /\ SubSeq(hdrs, 1, Len(hdrs) - 1)
               = SelectSeq(op.before, LAMBDA h : Lower(h.name) # Lower(op.arg))
    /\ op.built =>
          \A j, m \in 1..Len(hdrs) : Lower(hdrs[j].name) = Lower(hdrs[m].name) => j = m

\* a replace that met two headers of the name, in two cases, around another
\* header, which it kept
C30_Witness ==
    /\ op.name = "replace"
    /\ Len(op.before) = 3
    /\ Matches(op.before, op.arg) = {1, 3}
    /\ op.before[1].name # op.before[3].name
    /\ Len(hdrs) = 2
    /\ hdrs[1] = op.before[2]

\* the coding list a Transfer-Encoding value writes down
Coding(coding) == [coding |-> coding, name |-> <<>>, params |-> <<>>]
Extension(name) == [coding |-> "Extension", name |-> name, params |-> <<>>]

Written(value) ==
    CASE value = GZIP -> <<Coding("Gzip")>>
      [] value = CHUNKED -> <<Coding("Chunked")>>
      [] value = GZIP_CHUNKED -> <<Coding("Gzip"), Coding("Chunked")>>
      [] OTHER -> <<Extension(value)>>

RECURSIVE WrittenCodings(_)
WrittenCodings(hs) ==
    IF Len(hs) = 0 THEN <<>>
    ELSE (IF hs[1].name = TRANSFER_ENCODING THEN Written(hs[1].value) ELSE <<>>)
           \o WrittenCodings(Tail(hs))

(***************************************************************************)
(* C31  Headers.transfer_encoding() returns the coding lists of all the    *)
(* Transfer-Encoding headers, concatenated in header order, each list in   *)
(* its written order: headers "gzip" and "chunked" give [Gzip, Chunked],   *)
(* as does the one header "gzip, chunked".                                 *)
(***************************************************************************)
C31_CodingsConcatenated ==
    op.name = "transfer_encoding" => op.got = WrittenCodings(op.before)

\* the start-line, the headers in order each ended by CRLF, an empty line
\* and the body of a message
RECURSIVE HeaderLines(_)
HeaderLines(hs) ==
    IF Len(hs) = 0 THEN <<>>
    ELSE hs[1].name \o <<58, SP>> \o hs[1].value \o CRLF \o HeaderLines(Tail(hs))

StartLineText(m) ==
    IF m.type = "Request"
    THEN m.method \o <<SP>> \o Uri_display(m.uri) \o Text(" HTTP/1.1") \o CRLF
    ELSE Text("HTTP/1.1 ") \o format_u64(m.code) \o <<SP>> \o m.description \o CRLF

BodyBytes(body) ==
    CASE body.kind = "Reader" -> FileBytes(body.limit)
      [] body.kind = "Slice" -> body.bytes
      [] OTHER -> <<>>

WholeMessage(m) == StartLineText(m) \o HeaderLines(m.headers) \o CRLF \o BodyBytes(m.entity)

(***************************************************************************)
(* C32  write_to on a Request or Response hands the sink the start-line,   *)
(* the headers in insertion order each ended by CRLF, an empty line and    *)
(* the body (nothing, the slice, or the reader's bytes to EOF), and        *)
(* returns the length of that message; this for every sink, one that       *)
(* takes only part of the bytes of a write call included.                  *)
(***************************************************************************)
C32_WholeMessageWritten ==
    op.name = "write_to" =>
        /\ op.done.out = WholeMessage(op.of)
        /\ op.done.ret = Len(WholeMessage(op.of))

(***************************************************************************)
(* C33  On every proper prefix of a valid message head message_head        *)
(* answers Incomplete, never an error and never a parse of something       *)
(* else; on the whole head it answers the head.                            *)
(***************************************************************************)
C33_PrefixIsIncomplete ==
    op.name = "message_head" =>
        IF upos < Len(data) THEN op.parsed.k = "Incomplete"
        ELSE op.parsed.k = "Done" /\ op.parsed.pos = Len(data) + 1

\* s with every obs-fold (CRLF and the blanks after it) replaced by with
RECURSIVE Refold(_, _)
Refold(s, with) ==
    IF Len(s) = 0 THEN <<>>
    ELSE IF Len(s) >= 3 /\ s[1] = CR /\ s[2] = LF /\ s[3] \in WhiteSpace
    THEN with \o Refold(SubSeq(s, ScanWhile(WhiteSpace, s, 3), Len(s)), with)
    ELSE <<s[1]>> \o Refold(Tail(s), with)

\* s without the blanks at its ends
RECURSIVE TrimEnd(_)
TrimEnd(s) ==
    IF Len(s) > 0 /\ s[Len(s)] \in WhiteSpace THEN TrimEnd(SubSeq(s, 1, Len(s) - 1)) ELSE s

Trim(s) == TrimEnd(SubSeq(s, ScanWhile(WhiteSpace, s, 1), Len(s)))

\* the bytes of data that field_value took
Taken == SubSeq(data, 1, op.parsed.pos - 1)

HasFold(s) == \E j \in 1..Len(s) - 2 : s[j] = CR /\ s[j + 1] = LF /\ s[j + 2] \in WhiteSpace

\* the value the call gave, as field_value or as the header's value, with
\* `with` for every fold
ValueIs(with) ==
    /\ (op.name = "field_value" /\ op.parsed.k = "Done")
          => op.parsed.v = Refold(Taken, with)
    /\ (op.name = "header_field" /\ op.parsed.k = "Done" /\ op.parsed.pos = Len(data) + 3)
          => op.parsed.v.value = Trim(Refold(data, with))

NextHeadFits ==
    \E i \in 1..Len(stream) :
       /\ MsgStart(i) = Offset
       /\ Len(Template(stream[i]).head) <= Buffer_capacity(buffer)

\* unread bytes sit at the end of a full buffer while the upstream has more
\* and the driver goes on calling
Wedged ==
    /\ driver = "test"
    /\ running
    /\ upos < Len(data)
    /\ buffer.read_position > 0
    /\ buffer.write_position = Buffer_capacity(buffer)
    /\ NextHeadFits

\* a call has failed with "No data consumed" and left a state in which the
\* fill of the next call can only write 0 bytes again: the call after it
\* fails the same way and changes nothing, and so does every later one
FailsForEver ==
    /\ ~res.ok
    /\ res.why = "No data consumed"
    /\ ReadSizes(Buffer_space(buffer), Len(data) - upos) = {0}

(***************************************************************************)
(* C35  While the upstream has unread bytes and the head of the next       *)
(* message fits the buffer, repeated Stream::read calls do not leave the   *)
(* engine for ever with unread bytes at the end of a full buffer, where    *)
(* fill writes 0 bytes and each call fails with "No data consumed".        *)
(***************************************************************************)
C35_NotWedgedForEver == ~(Wedged /\ FailsForEver)

(***************************************************************************)
(* C36  ChunkStream.next() returns None, leaving the stream Finished,      *)
(* only after it has yielded a Last chunk: a chunked body that the         *)
(* upstream cuts off before its last-chunk is never reported as finished.  *)
(***************************************************************************)
C36_FinishedOnlyAfterLast ==
    (clast.ret = "None" /\ cstate = Finished) =>
        (cprev.ret = "Last" \/ clast.before = Finished)

\* the bytes a reader of the outermost BufferedRead has still to see: what
\* its Buffer holds unread, then what the source has not given yet
Unread == Buffer_as_read(buffer) \o SubSeq(data, upos + 1, Len(data))

\* C37: whatever the closures of a read_segment call and of the calls nested
\* in it consumed, the outermost reader is left with the stream less exactly
\* the consumed bytes, in the order of the stream: what a nested reader
\* pulled and did not consume is handed back, nothing is lost, repeated or
\* out of place.
C37_StreamLessConsumed ==
    op.name = "read_segment" => Unread = SelectSeq(data, LAMBDA b : b \notin op.consumed)

\* a call whose closure nested a call, where the nested reader pulled bytes it
\* did not consume and a nested closure consumed one
C37_Witness ==
    /\ op.name = "read_segment"
    /\ Len(op.back) > 0
    /\ op.took # {}
    /\ \E b \in op.took : b \notin {op.met.head[j] : j \in 1..Len(op.met.head)}
    /\ Unread = SelectSeq(data, LAMBDA b : b \notin op.consumed)

\* s begins with h
BeginsWith(s, h) == Len(h) <= Len(s) /\ SubSeq(s, 1, Len(h)) = h

Failed == op.name \in {"read_from", "read_segment"} /\ ~op.ok

\* C38 as stated: when the closure given to read_from or read_segment answers
\* Err, the Buffer has the cursors and the readable bytes the closure met,
\* no byte was consumed in the call, and the next call's closure is handed
\* the bytes the failed one was handed.
C38_ErrLeavesBufferAlone ==
    /\ Failed =>
          /\ buffer.read_position = op.met.read_position
          /\ buffer.write_position = op.met.write_position
          /\ Buffer_as_read(buffer) = op.met.head
          /\ op.took = {}
    /\ (op.name \in {"read_from", "read_segment"} /\ ~op.last.ok) =>
          BeginsWith(op.met.head, op.last.head)

\* C38, amended: when the closure answers Err the read cursor is where the
\* closure met it and the bytes it was handed are still readable, in place
\* and not consumed; behind them stand exactly the bytes the nested reader
\* handed back, which moves the write cursor by their number; only bytes a
\* nested closure consumed with Ok are gone; the next call's closure is handed
\* a head that begins with the bytes the failed one was handed.
C38_ErrKeepsHead ==
    /\ Failed =>
          /\ buffer.read_position = op.met.read_position
          /\ buffer.write_position = op.met.write_position + Len(op.back)
          /\ Buffer_as_read(buffer) = op.met.head \o op.back
          /\ op.took \cap {op.met.head[j] : j \in 1..Len(op.met.head)} = {}
          /\ op.name = "read_from" => op.took = {} /\ op.back = <<>>
    /\ (op.name \in {"read_from", "read_segment"} /\ ~op.last.ok) =>
          BeginsWith(op.met.head, op.last.head)

\* a read_segment whose closure answered Err after a nested closure consumed
\* a byte and the nested reader handed bytes back, followed by a call whose
\* closure answered Err as well
C38_Witness ==
    /\ Failed
    /\ op.took # {}
    /\ Len(op.back) > 0
    /\ ~op.last.ok
    /\ Len(op.last.head) > 0
    /\ BeginsWith(op.met.head, op.last.head)

\* a Response whose Content-Length is the one build() computed: it was just
\* made by a constructor, or Response::entity was the last call on it
ComputedLength ==
    /\ message.type = "Response"
    /\ op.name \in {"none", "entity"}
    /\ message.entity.kind \in {"None", "Slice"}

\* C39: a Response whose entity is a Reader carries no Content-Length that
\* was computed for an earlier None or Slice entity: when entity(Reader) is
\* called on a Response whose Content-Length is the computed one, the result
\* has no Content-Length.
C39_ReaderDropsComputedLength ==
    [][(ComputedLength /\ op'.name = "entity" /\ message'.entity.kind = "Reader")
          => ~Headers_get(message'.headers, CONTENT_LENGTH).some]_vars

\* the bytes a slice views
Content(slice) == SubSeq(Memory, slice.ptr, slice.ptr + slice.len - 1)

RECURSIVE Contents(_)
Contents(vec) == IF Len(vec) = 0 THEN <<>> ELSE Content(Head(vec)) \o Contents(Tail(vec))

\* the maximal runs of consecutive adjacent slices of vec, each as one slice
RECURSIVE Runs(_)
Runs(vec) ==
    IF Len(vec) <= 1 THEN vec
    ELSE IF is_adjacent(vec[1], vec[2])
         THEN Runs(<<Slice(vec[1].ptr, vec[1].len + vec[2].len)>> \o Tail(Tail(vec)))
    ELSE <<vec[1]>> \o Runs(Tail(vec))

\* what reduce_vec answered, as the list of its slices
Reduced == IF op.ret.ok THEN <<op.ret.slice>> ELSE op.ret.vec

\* reduce_vec answered with the runs of vec: Ok exactly when there is at
\* most one, Err with the list of them otherwise; no two neighbours of the
\* result are adjacent and the content is that of op.vec
ReducedTo(vec) ==
    op.name = "reduce_vec" =>
       /\ op.ret.ok = (Len(Runs(vec)) <= 1)
       /\ Len(Runs(vec)) >= 1 => Reduced = Runs(vec)
       /\ Len(Runs(vec)) = 0 => op.ret.slice.len = 0
       /\ \A j \in 1..(Len(Reduced) - 1) : ~is_adjacent(Reduced[j], Reduced[j + 1])
       /\ Contents(Reduced) = Contents(op.vec)

\* C40 as stated: reduce_vec(v) merges every maximal run of consecutive
\* memory-adjacent slices of v into one slice, in order; it answers Ok(slice)
\* exactly when everything merges into one slice and otherwise Err(list) with
\* no two neighbours adjacent; the content of the result is that of v.
C40_RunsMerged == ReducedTo(op.vec)

\* C40, amended: reduce_vec(v) leaves out the empty slices of v and does the
\* above with the slices that remain; it answers Ok(empty slice) when none
\* remains.
C40_NonEmptyRunsMerged == ReducedTo(SelectSeq(op.vec, LAMBDA s : s.len > 0))

\* a run with an empty slice inside it, as in
\* [&bytes[0..2], Default::default(), &bytes[2..4]], merged into one slice
C40_Witness ==
    /\ op.name = "reduce_vec"
    /\ Len(op.vec) = 3
    /\ op.vec[1].len > 0
    /\ op.vec[2].len = 0
    /\ op.vec[3].len > 0
    /\ op.ret.ok
    /\ op.ret.slice = Slice(op.vec[1].ptr, op.vec[1].len + op.vec[3].len)

====
